---- MODULE Spec2Model ----
(***************************************************************************)
(* A model of gym_plannable's multi-agent coordinator:                     *)
(*   - ClientServerInterface (the channels, the lifecycle events, the stop *)
(*     lock) and ActionCollector        src/gym_plannable/multi_agent/common.py *)
(*   - MultiAgentServer (the control loop and its handlers)                *)
(*                               src/gym_plannable/multi_agent/async_server.py *)
(*   - AgentClientEnv (the blocking per-agent reset()/step())              *)
(*                                     src/gym_plannable/multi_agent/client.py *)
(* The managed environment is an external collaborator: its reset(),      *)
(* step() and agent_turn are modelled as nondeterministic choices.         *)
(***************************************************************************)
EXTENDS Integers, Sequences, FiniteSets, TLC

\* ------------------------------------------------------------------ sizes
\* num_agents of the managed environment (the test environments have two)
NumAgents == 2
\* how many reset()/step() calls the agent threads make, all together
MaxCalls == 6
\* how many messages the raw channel harness puts into incoming_messages
MaxRaw == 4
\* how many reset()/step() calls the agent threads make when stop() is called too
StopCalls == 2
\* how many reset()/step() calls the agent threads make in the fair specification
LiveCalls == 1
\* how many reset()/step() calls the agent threads make when the handles are closed
CloseCalls == 1
\* how many messages are put into incoming_messages when stop() is called too
FaultRaw == 2
\* how many reset()/step() calls the scripted agent threads make, all together
EpisodeCalls == 5
\* observations are labelled with the environment's call count modulo this
ClockMod == 2
\* how many agents an environment handed to multi_agent_to_single_agent may have
MaxSpawnAgents == 3
\* how many ids an ActionCollector used on its own may be armed for
MaxLedgerIds == 3
\* how many reset()/step() calls the agents make before or while a thread stops
\* the server after an interrupted episode
DrainCalls == 4
\* how many reset()/step() calls the agents make on a server whose channels are
\* written to around its start, and how many such writes there are
StartCalls == 1
StartPuts == 1
\* how many reset()/step() calls the sessions with ignore_multiple_reset make
SessionCalls == 4
\* how many calls are made on an ActionCollector used on its own
LedgerCalls == 5

Agents == 0 .. (NumAgents - 1)
\* the ids a collector's slots are kept for: the agents' ids among them
LedgerIds == 0 .. (MaxLedgerIds - 1)
\* threads that call stop(wait=True) from outside the agents' threads
Stoppers == {100}
\* threads that tear the session handles down, one close() each
Closers == {100, 101}
Threads == Agents \cup Closers
\* action values an agent may pass to step(); "None" is Python's None
Actions == {"None", "a"}
\* values agent_turn may take: non-empty, duplicate-free sequences of agent ids
Turns == {<<0>>, <<1>>, <<0, 1>>, <<1, 0>>}
\* what one call of the environment may do: raise, or report done flags and
\* the next agent_turn
NoDone == [i \in Agents |-> FALSE]
\* reset() returns observations and sets agent_turn
EnvResetChoices == [raise : {FALSE}, done : {NoDone}, turn : Turns]
\* step() raises and leaves the environment as it was, or returns
EnvStepChoices ==
    [raise : {TRUE}, done : {NoDone}, turn : {<<0>>}]
        \cup [raise : {FALSE}, done : [Agents -> BOOLEAN], turn : Turns]

VARIABLES
    srv,              \* where the control-loop thread is in run()
    started,          \* csi.started_event
    finished,         \* csi.finished_event
    stop_lock,        \* csi.stop_lock is held
    incoming,         \* csi.incoming_messages
    outgoing,         \* csi.outgoing_messages[agentid]
    obs_msg_buffer,   \* server.obs_msg_buffer[agentid]
    reset_expected,   \* server._reset_expected[agentid]
    reset_requested,  \* server._reset_requested[agentid]
    obs,              \* server._obs[agentid] (0: None)
    info,             \* server._info[agentid] (0: None or an empty dict)
    collector,        \* server._action_collector
    env,              \* the managed environment: agent_turn and a call clock
    pc,               \* where each agent thread / stopper thread is
    qi,               \* the index of the outgoing queue a thread's _stop() is at
    budget,           \* calls the agent threads may still make
    result,           \* how an agent's last reset()/step() call ended ("error_stop":
                      \* an error handed to handle_error_stop, "error": to handle_error_nostop)
    rawLeft,          \* messages the raw harness may still put
    ev,               \* history: the last step taken and what it did
    roundFrom,        \* history: agent ids whose message the collector took this round
    blockedAtStop,    \* history: agents inside a call when a stopper took the lock
    restart,          \* history: "due" for an agent since the last interrupted round,
                      \*          "fresh" while its first call since then is a reset()
    trip,             \* history: the resets handled since the environment was last
                      \*          reset by a ResetMessage, while only resets were handled
    stopPuts,         \* history: StopServerMessages put so far, per queue
    thread,           \* where an agent's thread is in the script of the client
                      \* tests ("free": the thread follows no script)
    spawn,            \* the call of multi_agent_to_single_agent, if one is made:
                      \* its arguments, where it is and what it returned
    session           \* an AgentClientEnv's own fields, and history of its calls

vars == <<srv, started, finished, stop_lock, incoming, outgoing, obs_msg_buffer,
          reset_expected, reset_requested, obs, info, collector, env, pc, qi,
          budget, result, rawLeft, ev, roundFrom, blockedAtStop, restart, trip, stopPuts, thread, spawn, session>>

\* the server's private state, as the handlers read and write it
coord == <<obs_msg_buffer, reset_expected, reset_requested, obs, info, collector, env>>

\* --------------------------------------------------------------- messages
NoMsg == [type |-> "none"]
ResetMessage(agentid) == [type |-> "reset", agentid |-> agentid]
ActionMessage(action, agentid) == [type |-> "action", agentid |-> agentid, action |-> action]
StopServerMessage == [type |-> "stop"]
\* an ErrorMessage; exc names the exception it carries
ErrorMessage(exc) == [type |-> "error", exc |-> exc]
\* an object of no registered message type
MalformedMessage == [type |-> "malformed"]
\* ObservationMessage(observation, reward=0, done=False, info=None); the info
\* dict is its environment tag (0: empty) and its 'interrupted' key
ObservationMessage(observation, reward, done, infotag, interrupted) ==
    [type |-> "obs", observation |-> observation, reward |-> reward, done |-> done,
     info |-> infotag, interrupted |-> interrupted]

\* ------------------------------------------------------------ environment
\* what the environment returns for agent i at call clock k
ObsOf(k, i) == k * NumAgents + i + 1
RewOf(i) == i + 1
InfoOf(i) == i + 1
Tick(e) == (e.clock + 1) % ClockMod

\* --------------------------------------------------------- ActionCollector
RECURSIVE SeqToSet(_)
SeqToSet(s) == IF s = <<>> THEN {} ELSE {Head(s)} \cup SeqToSet(Tail(s))

\* ActionCollector.reset(agentids): the slot of an id that is no key is not read
ACReset(agentids) ==
    [keys |-> agentids, vals |-> [i \in LedgerIds |-> "None"],
     collected |-> 0, interrupted |-> FALSE]

\* ActionCollector.all_collected
ACAllCollected(ac) == ac.collected = Len(ac.keys)

\* ActionCollector.agent_turn, as a set
ACAgentTurn(ac) == SeqToSet(ac.keys)

\* a collect() that notes an interruption request before it looks up the slot
ACCollectMarking(ac, msg) ==
    LET ac0 == [ac EXCEPT !.interrupted = IF msg.type = "reset" THEN TRUE ELSE @] IN
    IF msg.agentid \notin ACAgentTurn(ac)
    THEN [err |-> "turn", ac |-> ac0]
    ELSE IF ac.vals[msg.agentid] # "None"
    THEN [err |-> "dup", ac |-> ac0]
    ELSE [err |-> "",
          ac |-> [ac0 EXCEPT
                    !.vals[msg.agentid] =
                        IF msg.type = "action" THEN msg.action ELSE "ResetAction",
                    !.collected = @ + 1]]

\* a collect() whose interrupted flag follows the last collected message
ACCollectForgetful(ac, msg) ==
    IF msg.agentid \notin ACAgentTurn(ac)
    THEN [err |-> "turn", ac |-> ac]
    ELSE IF ac.vals[msg.agentid] # "None"
    THEN [err |-> "dup", ac |-> ac]
    ELSE [err |-> "",
          ac |-> [ac EXCEPT
                    !.vals[msg.agentid] =
                        IF msg.type = "action" THEN msg.action ELSE "ResetAction",
                    !.interrupted = (msg.type = "reset"),
                    !.collected = @ + 1]]

\* ActionCollector.collect(msg): err is "" when the message was collected
ACCollect(ac, msg) ==
    IF msg.agentid \notin ACAgentTurn(ac)
    THEN [err |-> "turn", ac |-> ac]
    ELSE IF ac.vals[msg.agentid] # "None"
    THEN [err |-> "dup", ac |-> ac]
    ELSE [err |-> "",
          ac |-> [ac EXCEPT
                    !.vals[msg.agentid] =
                        IF msg.type = "action" THEN msg.action ELSE "ResetAction",
                    !.interrupted = IF msg.type = "reset" THEN TRUE ELSE @,
                    !.collected = @ + 1]]

\* ActionCollector.get_actions(), as the list handed to step()
ACGetActions(ac) == [k \in DOMAIN ac.keys |-> ac.vals[ac.keys[k]]]

\* ------------------------------------------------- MultiAgentServer handlers
\* The handlers are functions of the server's state c, a record:
\*   re, rr, buf, obs, info, ac, env : _reset_expected, _reset_requested,
\*       obs_msg_buffer, _obs, _info, _action_collector, the environment
\*   out : csi.outgoing_messages
\*   rf  : history, the agent ids collected this round
\*   srv : where run() goes next;  br, sim, args : history, the branch taken,
\*       the environment call made and the actions handed to step()
\* nd is what the environment does if it is called.

\* outgoing_messages[i].put_nowait(m)
Put(out, i, m) == [out EXCEPT ![i] = Append(@, m)]

\* MultiAgentServer._perform_reset: np.asarray(self.obs_msg_buffer) copies the
\* list, so the assignment of None through it leaves obs_msg_buffer as it was
PerformReset(c, nd) ==
    LET e1 == [turn |-> nd.turn, clock |-> Tick(c.env)] IN
    [c EXCEPT !.env = e1,
              !.obs = [i \in Agents |-> ObsOf(e1.clock, i)],
              !.info = [i \in Agents |-> 0],
              !.ac = ACReset(e1.turn),
              !.re = [i \in Agents |-> TRUE],
              !.rf = {},
              !.sim = "reset"]

\* an interrupted branch that skips only the agents with _reset_expected set, so
\* that it notifies the agents that asked for the reset too
InterruptedRoundNotifyAll(c, nd) ==
    LET out1 == [i \in Agents |->
                    IF c.re[i] THEN c.out[i]
                    ELSE Append(c.out[i],
                                ObservationMessage(c.obs[i], 0, TRUE, c.info[i], TRUE))]
        c1 == PerformReset([c EXCEPT !.out = out1], nd)
        turn == ACAgentTurn(c1.ac)
        msg(i) == ObservationMessage(c1.obs[i], 0, FALSE, 0, FALSE)
    IN  [c1 EXCEPT
            !.re = [i \in Agents |-> IF c1.rr[i] THEN FALSE ELSE c1.re[i]],
            !.out = [i \in Agents |->
                        IF i \in turn /\ c1.rr[i] THEN Append(c1.out[i], msg(i))
                        ELSE c1.out[i]],
            !.rr = [i \in Agents |-> IF i \in turn THEN FALSE ELSE c1.rr[i]],
            !.buf = [i \in Agents |->
                        IF i \in turn /\ ~c1.rr[i] THEN msg(i) ELSE c1.buf[i]],
            !.br = "round_interrupted"]

\* MultiAgentServer._perform_transition, the interrupted branch
InterruptedRound(c, nd) ==
    LET out1 == [i \in Agents |->
                    IF c.re[i] \/ c.rr[i] THEN c.out[i]
                    ELSE Append(c.out[i],
                                ObservationMessage(c.obs[i], 0, TRUE, c.info[i], TRUE))]
        c1 == PerformReset([c EXCEPT !.out = out1], nd)
        turn == ACAgentTurn(c1.ac)
        msg(i) == ObservationMessage(c1.obs[i], 0, FALSE, 0, FALSE)
    IN  [c1 EXCEPT
            !.re = [i \in Agents |-> IF c1.rr[i] THEN FALSE ELSE c1.re[i]],
            !.out = [i \in Agents |->
                        IF i \in turn /\ c1.rr[i] THEN Append(c1.out[i], msg(i))
                        ELSE c1.out[i]],
            !.rr = [i \in Agents |-> IF i \in turn THEN FALSE ELSE c1.rr[i]],
            !.buf = [i \in Agents |->
                        IF i \in turn /\ ~c1.rr[i] THEN msg(i) ELSE c1.buf[i]],
            !.br = "round_interrupted"]

\* a step branch that does not signal the newly done agents
NormalRoundNoSignal(c, nd) ==
    LET actions == ACGetActions(c.ac) IN
    IF nd.raise
    THEN [c EXCEPT
            !.out = [i \in Agents |->
                        IF i \in ACAgentTurn(c.ac)
                        THEN Append(c.out[i], ErrorMessage("StepError"))
                        ELSE c.out[i]],
            !.ac = ACReset(c.ac.keys),
            !.rf = {},
            !.br = "step_raised", !.sim = "step", !.args = actions]
    ELSE
    LET e1 == [turn |-> nd.turn, clock |-> Tick(c.env)]
        o == [i \in Agents |-> ObsOf(e1.clock, i)]
        msg(i) == ObservationMessage(o[i], RewOf(i), nd.done[i], InfoOf(i), FALSE)
        re1 == [i \in Agents |-> c.re[i] \/ nd.done[i]]
        turn == SeqToSet(e1.turn)
        buffered == {i \in turn : ~c.rr[i] /\ re1[i]}
    IN  [c EXCEPT
            !.env = e1, !.obs = o,
            !.info = [i \in Agents |-> InfoOf(i)],
            !.ac = ACReset(e1.turn),
            !.rf = {},
            !.re = re1,
            !.rr = [i \in Agents |-> IF i \in turn THEN FALSE ELSE c.rr[i]],
            !.buf = [i \in Agents |-> IF i \in buffered THEN msg(i) ELSE c.buf[i]],
            !.out = [i \in Agents |->
                        IF i \in turn /\ i \notin buffered
                        THEN Append(c.out[i], msg(i)) ELSE c.out[i]],
            !.br = "step_ok", !.sim = "step", !.args = actions, !.done = nd.done]

\* a step branch that buffers nothing: every agent in agent_turn is sent the
\* observation, whether it has reset or not
NormalRoundSendAll(c, nd) ==
    LET actions == ACGetActions(c.ac) IN
    IF nd.raise
    THEN [c EXCEPT
            !.out = [i \in Agents |->
                        IF i \in ACAgentTurn(c.ac)
                        THEN Append(c.out[i], ErrorMessage("StepError"))
                        ELSE c.out[i]],
            !.ac = ACReset(c.ac.keys),
            !.rf = {},
            !.br = "step_raised", !.sim = "step", !.args = actions]
    ELSE
    LET e1 == [turn |-> nd.turn, clock |-> Tick(c.env)]
        o == [i \in Agents |-> ObsOf(e1.clock, i)]
        msg(i) == ObservationMessage(o[i], RewOf(i), nd.done[i], InfoOf(i), FALSE)
        newly_done == {i \in Agents : ~c.re[i] /\ nd.done[i]}
        re1 == [i \in Agents |-> c.re[i] \/ nd.done[i]]
        turn == SeqToSet(e1.turn) \ newly_done
    IN  [c EXCEPT
            !.env = e1, !.obs = o,
            !.info = [i \in Agents |-> InfoOf(i)],
            !.ac = ACReset(e1.turn),
            !.rf = {},
            !.re = re1,
            !.rr = [i \in Agents |-> IF i \in turn THEN FALSE ELSE c.rr[i]],
            !.out = [i \in Agents |->
                        IF i \in newly_done \/ i \in turn
                        THEN Append(c.out[i], msg(i)) ELSE c.out[i]],
            !.br = "step_ok", !.sim = "step", !.args = actions, !.done = nd.done]

\* MultiAgentServer._perform_transition, the else branch: multi_agent_env.step
NormalRound(c, nd) ==
    LET actions == ACGetActions(c.ac) IN
    IF nd.raise
    THEN [c EXCEPT
            !.out = [i \in Agents |->
                        IF i \in ACAgentTurn(c.ac)
                        THEN Append(c.out[i], ErrorMessage("StepError"))
                        ELSE c.out[i]],
            !.ac = ACReset(c.ac.keys),
            !.rf = {},
            !.br = "step_raised", !.sim = "step", !.args = actions]
    ELSE
    LET e1 == [turn |-> nd.turn, clock |-> Tick(c.env)]
        o == [i \in Agents |-> ObsOf(e1.clock, i)]
        msg(i) == ObservationMessage(o[i], RewOf(i), nd.done[i], InfoOf(i), FALSE)
        newly_done == {i \in Agents : ~c.re[i] /\ nd.done[i]}
        re1 == [i \in Agents |-> c.re[i] \/ nd.done[i]]
        turn == SeqToSet(e1.turn) \ newly_done
        buffered == {i \in turn : ~c.rr[i] /\ re1[i]}
    IN  [c EXCEPT
            !.env = e1, !.obs = o,
            !.info = [i \in Agents |-> InfoOf(i)],
            !.ac = ACReset(e1.turn),
            !.rf = {},
            !.re = re1,
            !.rr = [i \in Agents |-> IF i \in turn THEN FALSE ELSE c.rr[i]],
            !.buf = [i \in Agents |-> IF i \in buffered THEN msg(i) ELSE c.buf[i]],
            !.out = [i \in Agents |->
                        IF i \in newly_done \/ (i \in turn /\ i \notin buffered)
                        THEN Append(c.out[i], msg(i)) ELSE c.out[i]],
            !.br = "step_ok", !.sim = "step", !.args = actions, !.done = nd.done]

\* MultiAgentServer._perform_transition
PerformTransition(c, nd) ==
    IF c.ac.interrupted THEN InterruptedRound(c, nd) ELSE NormalRound(c, nd)

\* a _handle_action without the _reset_expected test
HandleActionUnchecked(c, msg, nd) ==
    LET r == ACCollect(c.ac, msg) IN
    IF r.err # ""
    THEN [c EXCEPT !.ac = r.ac,
                   !.out = Put(c.out, msg.agentid, ErrorMessage("ValueError")),
                   !.br = r.err]
    ELSE
    LET c1 == [c EXCEPT !.ac = r.ac, !.rf = @ \cup {msg.agentid}] IN
    IF ACAllCollected(c1.ac) THEN PerformTransition(c1, nd)
    ELSE [c1 EXCEPT !.br = "collected"]

\* MultiAgentServer._handle_action; collect() works on the collector in place,
\* so the collector is as collect() left it also when collect() raised
HandleAction(c, msg, nd) ==
    IF c.re[msg.agentid]
    THEN [c EXCEPT !.out = Put(c.out, msg.agentid, ErrorMessage("RuntimeError")),
                   !.br = "no_reset"]
    ELSE
    LET r == ACCollect(c.ac, msg) IN
    IF r.err # ""
    THEN [c EXCEPT !.ac = r.ac,
                   !.out = Put(c.out, msg.agentid, ErrorMessage("ValueError")),
                   !.br = r.err]
    ELSE
    LET c1 == [c EXCEPT !.ac = r.ac, !.rf = @ \cup {msg.agentid}] IN
    IF ACAllCollected(c1.ac) THEN PerformTransition(c1, nd)
    ELSE [c1 EXCEPT !.br = "collected"]

\* a _send_buffer_msg that leaves the message in the buffer
SendBufferOrRequestKeep(c, agentid) ==
    IF c.buf[agentid] # NoMsg
    THEN [c EXCEPT !.out = Put(c.out, agentid, c.buf[agentid])]
    ELSE [c EXCEPT !.rr[agentid] = TRUE]

\* MultiAgentServer._has_buffer_msg / _send_buffer_msg, or the reset request
\* recorded when there is no buffered message
SendBufferOrRequest(c, agentid) ==
    IF c.buf[agentid] # NoMsg
    THEN [c EXCEPT !.out = Put(c.out, agentid, c.buf[agentid]),
                   !.buf[agentid] = NoMsg]
    ELSE [c EXCEPT !.rr[agentid] = TRUE]

\* MultiAgentServer._handle_reset
HandleReset(c, msg, nd) ==
    IF \A i \in Agents : c.re[i]
    THEN LET c1 == PerformReset(c, nd)
             turn == ACAgentTurn(c1.ac)
             c2 == [c1 EXCEPT
                      !.re[msg.agentid] = FALSE,
                      !.buf = [i \in Agents |->
                                 IF i \in turn
                                 THEN ObservationMessage(c1.obs[i], 0, FALSE, 0, FALSE)
                                 ELSE c1.buf[i]],
                      !.br = "full_reset"]
         IN  SendBufferOrRequest(c2, msg.agentid)
    ELSE IF c.re[msg.agentid]
    THEN SendBufferOrRequest([c EXCEPT !.re[msg.agentid] = FALSE, !.br = "agent_reset"],
                             msg.agentid)
    ELSE HandleAction([c EXCEPT !.rr[msg.agentid] = TRUE], msg, nd)

\* the dispatch of run()'s loop body over _message_handlers; _handle_stop raises
\* StopServerException, which run() catches; _handle_error raises ErrorException
\* and an unregistered type raises ValueError, neither of which run() catches
Dispatch(c, msg, nd) ==
    CASE msg.type = "action" -> HandleAction(c, msg, nd)
      [] msg.type = "reset" -> HandleReset(c, msg, nd)
      [] msg.type = "error" -> [c EXCEPT !.srv = "crashed", !.br = "error_exception"]
      [] msg.type = "stop" -> [c EXCEPT !.srv = "exit", !.br = "stop"]
      [] OTHER -> [c EXCEPT !.srv = "crashed", !.br = "value_error"]

\* ------------------------------------------------------------------ state
\* history: no message was handled in the last step
NoEvent == [msg |-> NoMsg, br |-> "", sim |-> "none", args |-> <<>>, done |-> NoDone]

\* history: no reset round trip is being followed
NoTrip == [open |-> FALSE, called |-> {}, resets |-> 0, got |-> [i \in Agents |-> 0]]

\* no call of multi_agent_to_single_agent: the server is constructed directly
NoSpawnEnv == [num_agents |-> 0, observation_spaces |-> <<>>, action_spaces |-> <<>>,
               reward_ranges |-> <<>>]
NoSpawn == [pos |-> "none", env |-> NoSpawnEnv, asynchronous |-> TRUE,
            return_server |-> FALSE, ignore_multiple_reset |-> FALSE,
            clients |-> <<>>, server |-> FALSE, raised |-> ""]

\* AgentClientEnv.__init__: _action_taken and _reset_obs (0: None); history:
\* call, the call the session is in; first, what the last reset() that sent a
\* ResetMessage returned (-1: there was none, -2: it has not returned or it
\* raised); stepped, a step() has returned since then
NewSession ==
    [action_taken |-> TRUE, reset_obs |-> 0, call |-> "none", first |-> -1,
     stepped |-> FALSE]

\* a server object as its constructor leaves it, with the threads around it
NewServer(calls, raws, stoppers, scripted) ==
    /\ srv = "new"
    /\ started = FALSE
    /\ finished = FALSE
    /\ stop_lock = FALSE
    /\ incoming = <<>>
    /\ outgoing = [i \in Agents |-> <<>>]
    /\ obs_msg_buffer = [i \in Agents |-> NoMsg]
    /\ reset_expected = [i \in Agents |-> TRUE]
    /\ reset_requested = [i \in Agents |-> FALSE]
    /\ obs = [i \in Agents |-> 0]
    /\ info = [i \in Agents |-> 0]
    /\ collector = ACReset(<<>>)
    /\ env = [turn |-> <<>>, clock |-> 0]
    /\ pc = [t \in Threads |-> IF t \in Agents \cup stoppers THEN "idle" ELSE "done"]
    /\ qi = [t \in Threads |-> 0]
    /\ budget = calls
    /\ result = [i \in Agents |-> "none"]
    /\ rawLeft = raws
    /\ ev = NoEvent
    /\ roundFrom = {}
    /\ blockedAtStop = {}
    /\ restart = [i \in Agents |-> ""]
    /\ trip = NoTrip
    /\ stopPuts = [inc |-> 0, out |-> [i \in Agents |-> 0]]
    /\ thread = [i \in Agents |-> IF scripted THEN "new" ELSE "free"]
    /\ session = [i \in Agents |-> NewSession]

InitWith(calls, raws, stoppers, scripted) ==
    /\ NewServer(calls, raws, stoppers, scripted)
    /\ spawn = NoSpawn

\* the server and its agents' threads
Init == InitWith(MaxCalls, 0, {}, FALSE)

\* the server, its agents' threads and a thread that calls stop()
StopInit == InitWith(StopCalls, 0, Stoppers, FALSE)

\* the same, with calls enough for an agent to interrupt an episode
DrainInit == InitWith(DrainCalls, 0, Stoppers, FALSE)

\* the same, for the fair specification
LiveInit == InitWith(LiveCalls, 0, Stoppers, FALSE)

\* the server and the raw channel harness
RawInit == InitWith(0, MaxRaw, {}, FALSE)

\* the server, its agents' threads and the threads that close the handles
CloseInit == InitWith(CloseCalls, 0, Closers, FALSE)

\* the server, the raw channel harness and a thread that calls stop()
FaultInit == InitWith(0, FaultRaw, Stoppers, FALSE)

\* the server and one scripted thread per agent, as in the client tests
EpisodeInit == InitWith(EpisodeCalls, 0, {}, TRUE)

\* MultiAgentServer.is_running
IsRunning == started /\ ~finished

\* start(wait=True) has returned: the bootstrap and the tests make every other
\* call after it
Booted == srv \notin {"new", "run", "drained"}

\* ------------------------------------------------------ the control loop
\* MultiAgentServer.start: the thread that runs run() is spawned
ServerStart ==
    /\ srv = "new"
    /\ srv' = "run"
    /\ ev' = NoEvent
    /\ UNCHANGED <<started, finished, stop_lock, incoming, outgoing, coord, pc, qi,
                   budget, result, rawLeft, roundFrom, blockedAtStop, restart, trip, stopPuts, thread, spawn, session>>

\* a run() that drains the incoming queue only
RunDrainIncoming ==
    /\ srv = "run"
    /\ srv' = "drained"
    /\ finished' = FALSE
    /\ incoming' = <<>>
    /\ ev' = NoEvent
    /\ UNCHANGED <<started, stop_lock, outgoing, coord, pc, qi, budget, result, rawLeft,
                   roundFrom, blockedAtStop, restart, trip, stopPuts, thread, spawn, session>>

\* run(): finished_event.clear() and the draining of both channel directions
RunDrain ==
    /\ srv = "run"
    /\ srv' = "drained"
    /\ finished' = FALSE
    /\ incoming' = <<>>
    /\ outgoing' = [i \in Agents |-> <<>>]
    /\ ev' = NoEvent
    /\ UNCHANGED <<started, stop_lock, coord, pc, qi, budget, result, rawLeft,
                   roundFrom, blockedAtStop, restart, trip, stopPuts, thread, spawn, session>>

\* run(): started_event.set()
RunSetStarted ==
    /\ srv = "drained"
    /\ srv' = "loop"
    /\ started' = TRUE
    /\ ev' = NoEvent
    /\ UNCHANGED <<finished, stop_lock, incoming, outgoing, coord, pc, qi, budget,
                   result, rawLeft, roundFrom, blockedAtStop, restart, trip, stopPuts, thread, spawn, session>>

CoordState ==
    [re |-> reset_expected, rr |-> reset_requested, buf |-> obs_msg_buffer,
     obs |-> obs, info |-> info, ac |-> collector, env |-> env, out |-> outgoing,
     rf |-> roundFrom, srv |-> "loop", br |-> "", sim |-> "none", args |-> <<>>,
     done |-> NoDone]

\* history: the round trip of resets after the handler of msg left the server in c.
\* A ResetMessage that resets the environment opens it; a ResetMessage of an
\* agent that has not asked yet continues it; any other message ends it.  got
\* counts the messages the handlers put into each outgoing queue, resets the
\* calls of multi_agent_env.reset.
TripAfter(c, msg) ==
    LET put(base) == [i \in Agents |-> base[i] + Len(c.out[i]) - Len(outgoing[i])] IN
    IF c.br = "full_reset"
    THEN [open |-> TRUE, called |-> {msg.agentid}, resets |-> 1, got |-> put(NoTrip.got)]
    ELSE IF trip.open /\ msg.type = "reset" /\ msg.agentid \notin trip.called
    THEN [open |-> TRUE, called |-> trip.called \cup {msg.agentid},
          resets |-> trip.resets + (IF c.sim = "reset" THEN 1 ELSE 0),
          got |-> put(trip.got)]
    ELSE NoTrip

\* what the environment may do in the call the handler of msg makes, if it makes one
EnvChoicesFor(c, msg) ==
    LET call == Dispatch(c, msg, [raise |-> TRUE, done |-> NoDone, turn |-> <<0>>]).sim
    IN  CASE call = "reset" -> EnvResetChoices
          [] call = "step" -> EnvStepChoices
          [] OTHER -> {[raise |-> TRUE, done |-> NoDone, turn |-> <<0>>]}

\* run(): one turn of the loop, incoming_messages.get() and the handler
ServerHandle ==
    /\ srv = "loop"
    /\ incoming # <<>>
    /\ \E msg \in {Head(incoming)} :
       \E nd \in EnvChoicesFor(CoordState, msg) :
       \E c \in {Dispatch(CoordState, msg, nd)} :
             /\ incoming' = Tail(incoming)
             /\ srv' = c.srv
             /\ reset_expected' = c.re
             /\ reset_requested' = c.rr
             /\ obs_msg_buffer' = c.buf
             /\ obs' = c.obs
             /\ info' = c.info
             /\ collector' = c.ac
             /\ env' = c.env
             /\ outgoing' = c.out
             /\ roundFrom' = c.rf
             /\ ev' = [msg |-> msg, br |-> c.br, sim |-> c.sim, args |-> c.args,
                       done |-> c.done]
             /\ trip' = TripAfter(c, msg)
             /\ restart' = IF c.br = "round_interrupted"
                           THEN [i \in Agents |->
                                   IF restart[i] = "fresh" THEN "fresh"
                                   ELSE IF reset_expected[i] THEN "" ELSE "due"]
                           ELSE restart
    /\ UNCHANGED <<started, finished, stop_lock, pc, qi, budget, result, rawLeft,
                   blockedAtStop, stopPuts, thread, spawn, session>>

\* an epilogue that releases the stop lock before it clears started_event
RunSetFinishedReleasing ==
    /\ srv = "exit"
    /\ srv' = "exit_clear"
    /\ finished' = TRUE
    /\ stop_lock' = FALSE
    /\ ev' = NoEvent
    /\ UNCHANGED <<started, incoming, outgoing, coord, pc, qi, budget,
                   result, rawLeft, roundFrom, blockedAtStop, restart, trip, stopPuts, thread, spawn, session>>

\* an epilogue that clears started_event first and never sets finished_event
RunClearStartedOnly ==
    /\ srv = "exit"
    /\ srv' = "exit_clear"
    /\ started' = FALSE
    /\ ev' = NoEvent
    /\ UNCHANGED <<finished, stop_lock, incoming, outgoing, coord, pc, qi, budget,
                   result, rawLeft, roundFrom, blockedAtStop, restart, trip, stopPuts, thread, spawn, session>>

\* run(): finished_event.set() after the loop was left by StopServerException
RunSetFinished ==
    /\ srv = "exit"
    /\ srv' = "exit_clear"
    /\ finished' = TRUE
    /\ ev' = NoEvent
    /\ UNCHANGED <<started, stop_lock, incoming, outgoing, coord, pc, qi, budget,
                   result, rawLeft, roundFrom, blockedAtStop, restart, trip, stopPuts, thread, spawn, session>>

\* run(): started_event.clear()
RunClearStarted ==
    /\ srv = "exit_clear"
    /\ srv' = "exit_release"
    /\ started' = FALSE
    /\ ev' = NoEvent
    /\ UNCHANGED <<finished, stop_lock, incoming, outgoing, coord, pc, qi, budget,
                   result, rawLeft, roundFrom, blockedAtStop, restart, trip, stopPuts, thread, spawn, session>>

\* run(): stop_lock.release()
RunReleaseLock ==
    /\ srv = "exit_release"
    /\ srv' = "done"
    /\ stop_lock' = FALSE
    /\ ev' = NoEvent
    /\ UNCHANGED <<started, finished, incoming, outgoing, coord, pc, qi, budget,
                   result, rawLeft, roundFrom, blockedAtStop, restart, trip, stopPuts, thread, spawn, session>>


\* ------------------------------------------------------ AgentClientEnv
\* a reset()/step() that clears the agent's _reset_expected flag itself
ClientSendDirect(i, msg) ==
    /\ Booted
    /\ pc[i] = "idle"
    /\ budget > 0
    /\ budget' = budget - 1
    /\ IF ~started \/ finished
       THEN /\ result' = [result EXCEPT ![i] = "not_running"]
            /\ thread' = [thread EXCEPT ![i] = IF @ = "free" THEN @ ELSE "failed"]
            /\ UNCHANGED <<incoming, pc, restart>>
       ELSE /\ incoming' = Append(incoming, msg)
            /\ pc' = [pc EXCEPT ![i] = "wait"]
            /\ result' = [result EXCEPT ![i] = "pending"]
            /\ thread' = [thread EXCEPT ![i] =
                            IF @ = "new" THEN "resetting"
                            ELSE IF @ = "playing" THEN "stepping" ELSE @]
            /\ restart' = [restart EXCEPT ![i] =
                             IF @ = "due" /\ msg.type = "reset" THEN "fresh" ELSE ""]
    /\ reset_expected' = [reset_expected EXCEPT ![i] = FALSE]
    /\ ev' = NoEvent
    /\ UNCHANGED <<srv, started, finished, stop_lock, outgoing, obs_msg_buffer,
                   reset_requested, obs, info, collector, env, qi, rawLeft,
                   roundFrom, blockedAtStop, trip, stopPuts, spawn, session>>

\* the first half of reset()/step(): the is-running test, and the put of the
\* request followed by the blocking get on the agent's own outgoing queue
ClientSend(i, msg) ==
    /\ Booted
    /\ pc[i] = "idle"
    /\ budget > 0
    /\ budget' = budget - 1
    /\ IF ~started \/ finished
       THEN /\ result' = [result EXCEPT ![i] = "not_running"]
            /\ thread' = [thread EXCEPT ![i] = IF @ = "free" THEN @ ELSE "failed"]
            /\ UNCHANGED <<incoming, pc, restart>>
       ELSE /\ incoming' = Append(incoming, msg)
            /\ pc' = [pc EXCEPT ![i] = "wait"]
            /\ result' = [result EXCEPT ![i] = "pending"]
            /\ thread' = [thread EXCEPT ![i] =
                            IF @ = "new" THEN "resetting"
                            ELSE IF @ = "playing" THEN "stepping" ELSE @]
            /\ restart' = [restart EXCEPT ![i] =
                             IF @ = "due" /\ msg.type = "reset" THEN "fresh" ELSE ""]
    /\ ev' = NoEvent
    /\ UNCHANGED <<srv, started, finished, stop_lock, outgoing, coord, qi, rawLeft,
                   roundFrom, blockedAtStop, trip, stopPuts, spawn, session>>

\* AgentClientEnv.reset
ClientReset(i) == ClientSend(i, ResetMessage(i))

\* AgentClientEnv.step
ClientStep(i, a) == ClientSend(i, ActionMessage(a, i))

\* the agent threads of the client tests: obs = env.reset(), then env.step(a)
\* until a step returns done; reset() returns the observation only, so the done
\* flag is seen in what step() returns; an exception ends the thread
ThreadAfter(at, msg) ==
    IF msg.type # "obs" THEN "failed"
    ELSE IF at = "stepping" /\ msg.done THEN "finished"
    ELSE "playing"

\* a reset()/step() whose handle_error_stop raises without calling csi.stop()
ClientReceiveRaiseOnly(i) ==
    /\ pc[i] = "wait"
    /\ outgoing[i] # <<>>
    /\ outgoing' = [outgoing EXCEPT ![i] = Tail(@)]
    /\ LET msg == Head(outgoing[i]) IN
       /\ ev' = NoEvent
       /\ \E handler \in {"handle_error_stop", "handle_error_nostop"} :
            CASE msg.type = "obs" ->
                    /\ pc' = [pc EXCEPT ![i] = "idle"]
                    /\ result' = [result EXCEPT ![i] = "obs"]
              [] msg.type = "stop" ->
                    /\ pc' = [pc EXCEPT ![i] = "idle"]
                    /\ result' = [result EXCEPT ![i] = "stopped"]
              [] OTHER ->
                    /\ pc' = [pc EXCEPT ![i] =
                                "idle"]
                    /\ result' = [result EXCEPT ![i] =
                                    IF handler = "handle_error_stop"
                                    THEN "error_stop" ELSE "error"]
    /\ blockedAtStop' = blockedAtStop \ {i}
    /\ restart' = [restart EXCEPT ![i] = IF @ = "fresh" THEN "" ELSE @]
    /\ thread' = [thread EXCEPT ![i] =
                     IF @ = "free" THEN @
                     ELSE ThreadAfter(@, Head(outgoing[i]))]
    /\ UNCHANGED <<srv, started, finished, stop_lock, incoming, coord, qi, budget,
                   rawLeft, roundFrom, trip, stopPuts, spawn, session>>

\* the second half of reset()/step(): the message taken from the outgoing queue
\* is returned, raised as StopServerException, or handed to error_handler
\* (handle_error_stop calls csi.stop() before raising; handle_error_nostop raises)
ClientReceive(i) ==
    /\ pc[i] = "wait"
    /\ outgoing[i] # <<>>
    /\ outgoing' = [outgoing EXCEPT ![i] = Tail(@)]
    /\ LET msg == Head(outgoing[i]) IN
       /\ ev' = NoEvent
       /\ \E handler \in {"handle_error_stop", "handle_error_nostop"} :
            CASE msg.type = "obs" ->
                    /\ pc' = [pc EXCEPT ![i] = "idle"]
                    /\ result' = [result EXCEPT ![i] = "obs"]
              [] msg.type = "stop" ->
                    /\ pc' = [pc EXCEPT ![i] = "idle"]
                    /\ result' = [result EXCEPT ![i] = "stopped"]
              [] OTHER ->
                    /\ pc' = [pc EXCEPT ![i] =
                                IF handler = "handle_error_stop" THEN "stop" ELSE "idle"]
                    /\ result' = [result EXCEPT ![i] =
                                    IF handler = "handle_error_stop"
                                    THEN "error_stop" ELSE "error"]
    /\ blockedAtStop' = blockedAtStop \ {i}
    /\ restart' = [restart EXCEPT ![i] = IF @ = "fresh" THEN "" ELSE @]
    /\ thread' = [thread EXCEPT ![i] =
                     IF @ = "free" THEN @
                     ELSE ThreadAfter(@, Head(outgoing[i]))]
    /\ UNCHANGED <<srv, started, finished, stop_lock, incoming, coord, qi, budget,
                   rawLeft, roundFrom, trip, stopPuts, spawn, session>>

\* ---------------------------- AgentClientEnv with ignore_multiple_reset=True
\* reset(): the is-running test; then, if no action was taken since the last
\* reset, the return of _reset_obs (kept in ev.args); otherwise the put of the
\* ResetMessage followed by the blocking get
SessionReset(i) ==
    /\ Booted
    /\ pc[i] = "idle"
    /\ budget > 0
    /\ budget' = budget - 1
    /\ IF ~started \/ finished
       THEN /\ result' = [result EXCEPT ![i] = "not_running"]
            /\ ev' = NoEvent
            /\ UNCHANGED <<incoming, pc, restart, session>>
       ELSE IF ~session[i].action_taken
       THEN /\ result' = [result EXCEPT ![i] = "obs"]
            /\ ev' = [NoEvent EXCEPT !.msg = ResetMessage(i), !.br = "reset_ignored",
                                     !.args = <<session[i].reset_obs>>]
            /\ UNCHANGED <<incoming, pc, restart, session>>
       ELSE /\ session' = [session EXCEPT ![i].action_taken = FALSE,
                                          ![i].call = "reset",
                                          ![i].first = -2,
                                          ![i].stepped = FALSE]
            /\ incoming' = Append(incoming, ResetMessage(i))
            /\ pc' = [pc EXCEPT ![i] = "wait"]
            /\ result' = [result EXCEPT ![i] = "pending"]
            /\ restart' = [restart EXCEPT ![i] = IF @ = "due" THEN "fresh" ELSE ""]
            /\ ev' = NoEvent
    /\ UNCHANGED <<srv, started, finished, stop_lock, outgoing, coord, qi, rawLeft,
                   roundFrom, blockedAtStop, trip, stopPuts, thread, spawn>>

\* step(action): the is-running test, the put of the ActionMessage and the
\* blocking get
SessionStep(i, a) ==
    /\ Booted
    /\ pc[i] = "idle"
    /\ budget > 0
    /\ budget' = budget - 1
    /\ IF ~started \/ finished
       THEN /\ result' = [result EXCEPT ![i] = "not_running"]
            /\ UNCHANGED <<incoming, pc, restart, session>>
       ELSE /\ session' = [session EXCEPT ![i].call = "step"]
            /\ incoming' = Append(incoming, ActionMessage(a, i))
            /\ pc' = [pc EXCEPT ![i] = "wait"]
            /\ result' = [result EXCEPT ![i] = "pending"]
            /\ restart' = [restart EXCEPT ![i] = ""]
    /\ ev' = NoEvent
    /\ UNCHANGED <<srv, started, finished, stop_lock, outgoing, coord, qi, rawLeft,
                   roundFrom, blockedAtStop, trip, stopPuts, thread, spawn>>

\* the second half of reset()/step(): an ErrorMessage goes to error_handler and
\* a StopServerMessage is raised, both before the session's fields are
\* written; an observation is kept in _reset_obs by reset(), and step() sets
\* _action_taken
SessionReceive(i) ==
    /\ pc[i] = "wait"
    /\ outgoing[i] # <<>>
    /\ outgoing' = [outgoing EXCEPT ![i] = Tail(@)]
    /\ LET msg == Head(outgoing[i]) IN
       /\ ev' = NoEvent
       /\ \E handler \in {"handle_error_stop", "handle_error_nostop"} :
            CASE msg.type = "obs" ->
                    /\ pc' = [pc EXCEPT ![i] = "idle"]
                    /\ result' = [result EXCEPT ![i] = "obs"]
                    /\ session' = [session EXCEPT ![i] =
                            IF @.call = "reset"
                            THEN [@ EXCEPT !.reset_obs = msg.observation,
                                           !.first = msg.observation,
                                           !.call = "none"]
                            ELSE [@ EXCEPT !.action_taken = TRUE,
                                           !.stepped = TRUE,
                                           !.call = "none"]]
              [] msg.type = "stop" ->
                    /\ pc' = [pc EXCEPT ![i] = "idle"]
                    /\ result' = [result EXCEPT ![i] = "stopped"]
                    /\ session' = [session EXCEPT ![i].call = "none"]
              [] OTHER ->
                    /\ pc' = [pc EXCEPT ![i] =
                                IF handler = "handle_error_stop" THEN "stop" ELSE "idle"]
                    /\ result' = [result EXCEPT ![i] =
                                    IF handler = "handle_error_stop"
                                    THEN "error_stop" ELSE "error"]
                    /\ session' = [session EXCEPT ![i].call = "none"]
    /\ blockedAtStop' = blockedAtStop \ {i}
    /\ restart' = [restart EXCEPT ![i] = IF @ = "fresh" THEN "" ELSE @]
    /\ UNCHANGED <<srv, started, finished, stop_lock, incoming, coord, qi, budget,
                   rawLeft, roundFrom, trip, stopPuts, thread, spawn>>

\* the server and the sessions multi_agent_to_single_agent returns for
\* ignore_multiple_reset=True
SessionInit == InitWith(SessionCalls, 0, {}, FALSE)

\* ------------------------------------------------ ClientServerInterface.stop
\* where a thread is when it enters stop(): a stopper thread that has not called
\* it yet, or an agent thread inside handle_error_stop
AtStop(t) == (t \notin Agents /\ pc[t] = "idle" /\ Booted) \/ (t \in Agents /\ pc[t] = "stop")

\* where a thread goes when stop() returns: an agent's error handler raises
AfterStop(t) == IF t \in Agents THEN "idle" ELSE "done"

\* a stop() that runs _stop() whether or not it got the stop lock
StopAcquireUnlocked(t) ==
    /\ AtStop(t)
    /\ stop_lock' = TRUE
    /\ IF started /\ ~finished
       THEN /\ incoming' = Append(incoming, StopServerMessage)
            /\ pc' = [pc EXCEPT ![t] = "fill_get"]
            /\ qi' = [qi EXCEPT ![t] = 0]
            /\ blockedAtStop' = {i \in Agents : pc[i] = "wait"}
            /\ stopPuts' = [stopPuts EXCEPT !.inc = @ + 1]
       ELSE /\ pc' = [pc EXCEPT ![t] = "wait_check"]
            /\ UNCHANGED <<incoming, qi, blockedAtStop, stopPuts>>
    /\ ev' = NoEvent
    /\ UNCHANGED <<srv, started, finished, outgoing, coord, budget, result, rawLeft,
                   roundFrom, restart, trip, thread, spawn, session>>

\* stop(): stop_lock.acquire(blocking=False) and, if it was acquired, the head of
\* _stop(): the is-running test and the put of StopServerMessage to incoming
StopAcquire(t) ==
    /\ AtStop(t)
    /\ IF stop_lock
       THEN /\ pc' = [pc EXCEPT ![t] = "wait_check"]
            /\ UNCHANGED <<stop_lock, incoming, qi, blockedAtStop, stopPuts, thread, spawn, session>>
       ELSE /\ stop_lock' = TRUE
            /\ IF started /\ ~finished
               THEN /\ incoming' = Append(incoming, StopServerMessage)
                    /\ pc' = [pc EXCEPT ![t] = "fill_get"]
                    /\ qi' = [qi EXCEPT ![t] = 0]
                    /\ blockedAtStop' = {i \in Agents : pc[i] = "wait"}
                    /\ stopPuts' = [stopPuts EXCEPT !.inc = @ + 1]
               ELSE /\ pc' = [pc EXCEPT ![t] = "wait_check"]
                    /\ UNCHANGED <<incoming, qi, blockedAtStop, stopPuts, thread, spawn, session>>
    /\ ev' = NoEvent
    /\ UNCHANGED <<srv, started, finished, outgoing, coord, budget, result, rawLeft,
                   roundFrom, restart, trip, thread, spawn, session>>

\* stop() called by a thread that does not wait for start(wait=True) to return:
\* the same steps as StopAcquire, entered before started_event is set
StopBeforeStart(t) ==
    /\ t \notin Agents
    /\ pc[t] = "idle"
    /\ ~Booted
    /\ IF stop_lock
       THEN /\ pc' = [pc EXCEPT ![t] = "wait_check"]
            /\ UNCHANGED <<stop_lock, incoming, qi, blockedAtStop, stopPuts>>
       ELSE /\ stop_lock' = TRUE
            /\ IF started /\ ~finished
               THEN /\ incoming' = Append(incoming, StopServerMessage)
                    /\ pc' = [pc EXCEPT ![t] = "fill_get"]
                    /\ qi' = [qi EXCEPT ![t] = 0]
                    /\ blockedAtStop' = {i \in Agents : pc[i] = "wait"}
                    /\ stopPuts' = [stopPuts EXCEPT !.inc = @ + 1]
               ELSE /\ pc' = [pc EXCEPT ![t] = "wait_check"]
                    /\ UNCHANGED <<incoming, qi, blockedAtStop, stopPuts>>
    /\ ev' = NoEvent
    /\ UNCHANGED <<srv, started, finished, outgoing, coord, budget, result, rawLeft,
                   roundFrom, restart, trip, thread, spawn, session>>

\* _stop(): oq.get_nowait() on the next outgoing queue, Empty ignored
StopFillGet(t) ==
    /\ pc[t] = "fill_get"
    /\ outgoing' = [outgoing EXCEPT ![qi[t]] = IF @ = <<>> THEN @ ELSE Tail(@)]
    /\ pc' = [pc EXCEPT ![t] = "fill_put"]
    /\ ev' = NoEvent
    /\ UNCHANGED <<srv, started, finished, stop_lock, incoming, coord, qi, budget,
                   result, rawLeft, roundFrom, blockedAtStop, restart, trip, stopPuts, thread, spawn, session>>

\* a _stop() that clears the outgoing queue but puts no StopServerMessage
StopFillSkip(t) ==
    /\ pc[t] = "fill_put"
    /\ IF qi[t] + 1 < NumAgents
       THEN /\ qi' = [qi EXCEPT ![t] = @ + 1]
            /\ pc' = [pc EXCEPT ![t] = "fill_get"]
       ELSE /\ qi' = [qi EXCEPT ![t] = 0]
            /\ pc' = [pc EXCEPT ![t] = "wait_check"]
    /\ ev' = NoEvent
    /\ UNCHANGED <<srv, started, finished, stop_lock, incoming, outgoing, coord,
                   budget, result, rawLeft, roundFrom, blockedAtStop, restart, trip, stopPuts, thread, spawn, session>>

\* _stop(): oq.put_nowait(StopServerMessage()), then the next queue
StopFillPut(t) ==
    /\ pc[t] = "fill_put"
    /\ outgoing' = Put(outgoing, qi[t], StopServerMessage)
    /\ stopPuts' = [stopPuts EXCEPT !.out[qi[t]] = @ + 1]
    /\ IF qi[t] + 1 < NumAgents
       THEN /\ qi' = [qi EXCEPT ![t] = @ + 1]
            /\ pc' = [pc EXCEPT ![t] = "fill_get"]
       ELSE /\ qi' = [qi EXCEPT ![t] = 0]
            /\ pc' = [pc EXCEPT ![t] = "wait_check"]
    /\ ev' = NoEvent
    /\ UNCHANGED <<srv, started, finished, stop_lock, incoming, coord, budget,
                   result, rawLeft, roundFrom, blockedAtStop, restart, trip, thread, spawn, session>>

\* a stop() that returns without waiting for finished_event
StopWaitCheckNoWait(t) ==
    /\ pc[t] = "wait_check"
    /\ pc' = [pc EXCEPT ![t] = AfterStop(t)]
    /\ ev' = NoEvent
    /\ UNCHANGED <<srv, started, finished, stop_lock, incoming, outgoing, coord, qi,
                   budget, result, rawLeft, roundFrom, blockedAtStop, restart, trip, stopPuts, thread, spawn, session>>

\* stop(): if wait and started_event.is_set(), go on to finished_event.wait()
StopWaitCheck(t) ==
    /\ pc[t] = "wait_check"
    /\ pc' = [pc EXCEPT ![t] = IF started THEN "wait_finished" ELSE AfterStop(t)]
    /\ ev' = NoEvent
    /\ UNCHANGED <<srv, started, finished, stop_lock, incoming, outgoing, coord, qi,
                   budget, result, rawLeft, roundFrom, blockedAtStop, restart, trip, stopPuts, thread, spawn, session>>

\* a stop() whose finished_event.wait() returns at once
StopWaitFinishedEarly(t) ==
    /\ pc[t] = "wait_finished"
    /\ pc' = [pc EXCEPT ![t] = AfterStop(t)]
    /\ ev' = NoEvent
    /\ UNCHANGED <<srv, started, finished, stop_lock, incoming, outgoing, coord, qi,
                   budget, result, rawLeft, roundFrom, blockedAtStop, restart, trip, stopPuts, thread, spawn, session>>

\* stop(): finished_event.wait() returns
StopWaitFinished(t) ==
    /\ pc[t] = "wait_finished"
    /\ finished
    /\ pc' = [pc EXCEPT ![t] = AfterStop(t)]
    /\ ev' = NoEvent
    /\ UNCHANGED <<srv, started, finished, stop_lock, incoming, outgoing, coord, qi,
                   budget, result, rawLeft, roundFrom, blockedAtStop, restart, trip, stopPuts, thread, spawn, session>>

\* ------------------------------------------------- the raw channel harness
\* what the server tests put into csi.incoming_messages directly
RawMessages ==
    {ResetMessage(i) : i \in Agents}
        \cup {ActionMessage(a, i) : a \in Actions, i \in Agents}
        \cup {MalformedMessage}

\* messages put into csi.incoming_messages, an error report among them
FaultMessages ==
    {ErrorMessage("Reported"), ResetMessage(0), ActionMessage("a", 0)}

\* server.csi.incoming_messages.put(msg), as the server tests do
RawPut(msg) ==
    /\ Booted
    /\ rawLeft > 0
    /\ rawLeft' = rawLeft - 1
    /\ incoming' = Append(incoming, msg)
    /\ ev' = NoEvent
    /\ UNCHANGED <<srv, started, finished, stop_lock, outgoing, coord, pc, qi, budget,
                   result, roundFrom, blockedAtStop, restart, trip, stopPuts, thread, spawn, session>>

\* server.csi.outgoing_messages[i].get(), as the server tests do
RawGet(i) ==
    /\ outgoing[i] # <<>>
    /\ outgoing' = [outgoing EXCEPT ![i] = Tail(@)]
    /\ ev' = NoEvent
    /\ UNCHANGED <<srv, started, finished, stop_lock, incoming, coord, pc, qi, budget,
                   result, rawLeft, roundFrom, blockedAtStop, restart, trip, stopPuts, thread, spawn, session>>

\* ------------------------------------- the channels around the server's start
\* history: a message with a note of where run() was when it was put on a channel
PlacedAt(msg, at) == msg @@ [placed |-> at]

\* a message that was put on a channel before run() began to drain the channels
IsStale(msg) == "placed" \in DOMAIN msg /\ msg.placed \in {"new", "run"}

\* a message that was put on a channel before started_event was set
IsEarly(msg) == "placed" \in DOMAIN msg /\ msg.placed \in {"new", "run", "drained"}

\* what a holder of the interface may put into incoming_messages
PlaceInMessages == {ResetMessage(i) : i \in Agents} \cup {ActionMessage("a", i) : i \in Agents}

\* what may be left in an outgoing queue
PlaceOutMessages == {ObservationMessage(0, 0, FALSE, 0, FALSE), StopServerMessage}

\* csi.incoming_messages.put(msg) by a holder of the interface that does not
\* wait for started_event
PlaceIn(msg) ==
    /\ ~Booted
    /\ rawLeft > 0
    /\ rawLeft' = rawLeft - 1
    /\ incoming' = Append(incoming, PlacedAt(msg, srv))
    /\ ev' = NoEvent
    /\ UNCHANGED <<srv, started, finished, stop_lock, outgoing, coord, pc, qi, budget,
                   result, roundFrom, blockedAtStop, restart, trip, stopPuts, thread, spawn, session>>

\* csi.outgoing_messages[i].put(msg) by a holder of the interface that does not
\* wait for started_event
PlaceOut(i, msg) ==
    /\ ~Booted
    /\ rawLeft > 0
    /\ rawLeft' = rawLeft - 1
    /\ outgoing' = Put(outgoing, i, PlacedAt(msg, srv))
    /\ ev' = NoEvent
    /\ UNCHANGED <<srv, started, finished, stop_lock, incoming, coord, pc, qi, budget,
                   result, roundFrom, blockedAtStop, restart, trip, stopPuts, thread, spawn, session>>

\* the server, its agents' threads and a holder of the interface
StartInit == InitWith(StartCalls, StartPuts, {}, FALSE)

\* ------------------------------------------- the ActionCollector on its own
\* the lists of ids reset(agentids) may be given: duplicate-free, the empty
\* list of the constructor's default among them
RECURSIVE ListsOver(_)
ListsOver(ids) ==
    {<<>>} \cup UNION {{<<i>> \o l : l \in ListsOver(ids \ {i})} : i \in ids}

\* the messages collect(msg) documents
LedgerMessages ==
    {ResetMessage(i) : i \in LedgerIds}
        \cup {ActionMessage(a, i) : a \in Actions, i \in LedgerIds}

\* collector.reset(agentids)
LedgerReset(agentids) ==
    /\ rawLeft > 0
    /\ rawLeft' = rawLeft - 1
    /\ collector' = ACReset(agentids)
    /\ roundFrom' = {}
    /\ ev' = [NoEvent EXCEPT !.br = "armed"]
    /\ UNCHANGED <<srv, started, finished, stop_lock, incoming, outgoing, obs_msg_buffer,
                   reset_expected, reset_requested, obs, info, env, pc, qi, budget,
                   result, blockedAtStop, restart, trip, stopPuts, thread, spawn, session>>

\* collector.collect(msg): the ValueError it raised, if any, is kept in ev.br
LedgerCollect(msg) ==
    /\ rawLeft > 0
    /\ rawLeft' = rawLeft - 1
    /\ LET r == ACCollect(collector, msg) IN
          /\ collector' = r.ac
          /\ roundFrom' = IF r.err = "" THEN roundFrom \cup {msg.agentid} ELSE roundFrom
          /\ ev' = [NoEvent EXCEPT !.msg = msg,
                                   !.br = IF r.err = "" THEN "collected" ELSE r.err]
    /\ UNCHANGED <<srv, started, finished, stop_lock, incoming, outgoing, obs_msg_buffer,
                   reset_expected, reset_requested, obs, info, env, pc, qi, budget,
                   result, blockedAtStop, restart, trip, stopPuts, thread, spawn, session>>

\* collector.get_actions(): the RuntimeError it raised is kept in ev.br, the
\* values of the mapping it returned, in the mapping's order, in ev.args
LedgerGetActions ==
    /\ rawLeft > 0
    /\ rawLeft' = rawLeft - 1
    /\ ev' = IF ACAllCollected(collector)
             THEN [NoEvent EXCEPT !.br = "actions", !.args = ACGetActions(collector)]
             ELSE [NoEvent EXCEPT !.br = "runtime_error"]
    /\ UNCHANGED <<srv, started, finished, stop_lock, incoming, outgoing, coord, pc, qi,
                   budget, result, roundFrom, blockedAtStop, restart, trip, stopPuts,
                   thread, spawn, session>>

\* a collector as ActionCollector() constructs it
LedgerInit == InitWith(0, LedgerCalls, {}, FALSE)

\* ------------------------------------------ multi_agent_to_single_agent
\* the spaces an environment may declare for an agent
Spaces == {"Discrete", "Box"}
RewardRanges == {"unit", "unbounded"}
\* the environments multi_agent_to_single_agent may be called with: num_agents
\* and the per-agent observation_spaces, action_spaces and reward_ranges
SpawnEnvs ==
    UNION {[num_agents : {n},
            observation_spaces : [1..n -> Spaces],
            action_spaces : [1..n -> Spaces],
            reward_ranges : [1..n -> RewardRanges]] : n \in 2..MaxSpawnAgents}
\* the calls of multi_agent_to_single_agent: an environment and the keywords
SpawnCalls ==
    [pos : {"call"}, env : SpawnEnvs, asynchronous : BOOLEAN,
     return_server : BOOLEAN, ignore_multiple_reset : BOOLEAN,
     clients : {<<>>}, server : {FALSE}, raised : {""}]

\* the keyword arguments multi_agent_to_single_agent passes to MultiAgentServer
\* after the environment
SpawnKeywords == {"asynchronous"}
\* the parameters MultiAgentServer.__init__ declares after self
ServerInitParams == {"multi_agent_env"}

\* AgentClientEnv.__init__: the handle of agent agentid on the interface csi
AgentClientEnv(e, csi, agentid, ignore) ==
    [agentid |-> agentid, csi |-> csi,
     observation_space |-> e.observation_spaces[agentid + 1],
     action_space |-> e.action_spaces[agentid + 1],
     reward_range |-> e.reward_ranges[agentid + 1],
     ignore_multiple_reset |-> ignore]

\* multi_agent_to_single_agent(env, ...): the constructor call raises TypeError
\* on a keyword it does not declare; otherwise start() returns once run() has
\* drained the queues and set started_event, and one handle per agent id in
\* range(num_agents) is made on the server's interface
Spawn ==
    /\ spawn.pos = "call"
    /\ IF SpawnKeywords \subseteq ServerInitParams
         THEN /\ srv' = "loop"
              /\ started' = TRUE
              /\ incoming' = <<>>
              /\ outgoing' = [i \in Agents |-> <<>>]
              /\ spawn' = [spawn EXCEPT
                    !.pos = "returned",
                    !.clients = [k \in 1..spawn.env.num_agents |->
                                    AgentClientEnv(spawn.env, "server.csi", k - 1,
                                                   spawn.ignore_multiple_reset)],
                    !.server = spawn.return_server]
         ELSE /\ spawn' = [spawn EXCEPT !.pos = "raised", !.raised = "TypeError"]
              /\ UNCHANGED <<srv, started, incoming, outgoing>>
    /\ UNCHANGED <<finished, stop_lock, coord, pc, qi, budget, result, rawLeft, ev,
                   roundFrom, blockedAtStop, restart, trip, stopPuts, thread, session>>

\* a program that is about to call multi_agent_to_single_agent
BootInit ==
    /\ NewServer(0, 0, {}, FALSE)
    /\ spawn \in SpawnCalls

\* --------------------------------------------------------- specifications
ServerNext ==
    \/ ServerStart
    \/ RunDrain
    \/ RunSetStarted
    \/ ServerHandle
    \/ RunSetFinished
    \/ RunClearStarted
    \/ RunReleaseLock

StopNext(t) ==
    \/ StopAcquire(t)
    \/ StopFillGet(t)
    \/ StopFillPut(t)
    \/ StopWaitCheck(t)
    \/ StopWaitFinished(t)

ClientNext(i) ==
    \/ ClientReset(i)
    \/ \E a \in Actions : ClientStep(i, a)
    \/ ClientReceive(i)

\* the next call of a scripted agent thread: reset() first, then step(a) with an
\* action of its action space until it has seen done
ThreadCall(i) ==
    \/ thread[i] = "new" /\ ClientReset(i)
    \/ thread[i] = "playing" /\ ClientStep(i, "a")

\* the server, one AgentClientEnv thread per agent, and threads calling stop()
Next ==
    \/ ServerNext
    \/ \E i \in Agents : ClientNext(i)
    \/ \E t \in Threads : StopNext(t)

Spec == Init /\ [][Next]_vars

\* the server driven through its channels directly, as the server tests drive
\* it; nothing puts a StopServerMessage, so run() stays in its loop
RawNext ==
    \/ ServerStart
    \/ RunDrain
    \/ RunSetStarted
    \/ ServerHandle
    \/ \E msg \in RawMessages : RawPut(msg)
    \/ \E i \in Agents : RawGet(i)

RawSpec == RawInit /\ [][RawNext]_vars

StopSpec == StopInit /\ [][Next]_vars

DrainSpec == DrainInit /\ [][Next]_vars

\* every thread that can take a step is eventually scheduled: the control loop,
\* an agent thread whose outgoing_messages[i].get() can return, and a thread
\* inside stop(); an agent thread need not call reset()/step() again
LiveSpec ==
    /\ LiveInit
    /\ [][Next]_vars
    /\ WF_vars(ServerNext)
    /\ \A i \in Agents : WF_vars(ClientReceive(i))
    /\ \A t \in Threads : WF_vars(StopNext(t))

\* the client tests' tearDown: the handles are closed while or after the agents'
\* threads make their calls
CloseSpec == CloseInit /\ [][Next]_vars

\* the same, with threads that may call stop() before the server has started
EarlyStopNext ==
    \/ Next
    \/ \E t \in Closers : StopBeforeStart(t)

EarlyStopSpec == CloseInit /\ [][EarlyStopNext]_vars

\* the server driven through its channels directly, with a thread that calls
\* stop(wait=True) as the tearDown of the server tests does; the control loop
\* and the thread inside stop() are eventually scheduled
FaultNext ==
    \/ ServerNext
    \/ \E msg \in FaultMessages : RawPut(msg)
    \/ \E i \in Agents : RawGet(i)
    \/ \E t \in Stoppers : StopNext(t)

FaultSpec ==
    /\ FaultInit
    /\ [][FaultNext]_vars
    /\ WF_vars(ServerNext)
    /\ \A t \in Stoppers : WF_vars(StopNext(t))

\* the client tests: the server and one scripted thread per agent; every thread
\* that can take a step is eventually scheduled
EpisodeNext ==
    \/ ServerNext
    \/ \E i \in Agents : ThreadCall(i)
    \/ \E i \in Agents : ClientReceive(i)
    \/ \E t \in Agents : StopNext(t)

EpisodeSpec ==
    /\ EpisodeInit
    /\ [][EpisodeNext]_vars
    /\ WF_vars(ServerNext)
    /\ \A i \in Agents : WF_vars(ThreadCall(i)) /\ WF_vars(ClientReceive(i))
    /\ \A t \in Agents : WF_vars(StopNext(t))

\* a call of multi_agent_to_single_agent and nothing else
BootNext == Spawn

BootSpec == BootInit /\ [][BootNext]_vars

\* the server and its agents' threads, with messages put on the channels before
\* and while the server starts
StartNext ==
    \/ ServerNext
    \/ \E i \in Agents : ClientNext(i)
    \/ \E i \in Agents : StopNext(i)
    \/ \E msg \in PlaceInMessages : PlaceIn(msg)
    \/ \E i \in Agents : \E msg \in PlaceOutMessages : PlaceOut(i, msg)

StartSpec == StartInit /\ [][StartNext]_vars

\* the server and one AgentClientEnv with ignore_multiple_reset=True per agent
SessionNext ==
    \/ ServerNext
    \/ \E i \in Agents : SessionReset(i)
    \/ \E i \in Agents : \E a \in Actions : SessionStep(i, a)
    \/ \E i \in Agents : SessionReceive(i)
    \/ \E i \in Agents : StopNext(i)

SessionSpec == SessionInit /\ [][SessionNext]_vars

\* an ActionCollector used on its own: any calls of reset, collect and get_actions
LedgerNext ==
    \/ \E agentids \in ListsOver(LedgerIds) : LedgerReset(agentids)
    \/ \E msg \in LedgerMessages : LedgerCollect(msg)
    \/ LedgerGetActions

LedgerSpec == LedgerInit /\ [][LedgerNext]_vars

\* ------------------------------------------------------------- properties
\* C3: the environment, the collector, the reset flags, the stored observations
\* and the observation buffers change only in a step of the control loop that
\* takes exactly one message from incoming_messages, and such a step makes at
\* most one environment call; no agent thread and no stop() caller changes them.
SingleWriter ==
    [][/\ (coord' # coord) =>
            /\ srv = "loop"
            /\ incoming # <<>>
            /\ incoming' = Tail(incoming)
            /\ ev'.msg = Head(incoming)
       /\ (ev'.sim # "none") =>
            /\ srv = "loop"
            /\ ev'.msg = Head(incoming)
       /\ (env' # env) =>
            /\ ev'.sim # "none"
            /\ env'.clock = Tick(env)]_vars

\* C3 witness: the control loop made an environment call while both agent
\* threads were inside a call
SingleWriterSeen ==
    /\ ev.sim = "step"
    /\ \A i \in Agents : pc[i] = "wait"

\* C5: an ActionMessage of agent p handled while _reset_expected[p] is set puts
\* exactly one ErrorMessage(RuntimeError) into p's outgoing queue and changes
\* nothing else: the collector, both reset flags, the buffers, the environment
\* and every other outgoing queue stay as they were.
ActingWithoutReset ==
    [][(ev'.msg.type = "action" /\ reset_expected[ev'.msg.agentid]) =>
            /\ outgoing' = Put(outgoing, ev'.msg.agentid, ErrorMessage("RuntimeError"))
            /\ coord' = coord
            /\ ev'.sim = "none"
            /\ srv' = "loop"]_vars

\* C5 witness: an action was answered with the acted-without-reset error
ActingWithoutResetSeen ==
    /\ ev.msg.type = "action"
    /\ ev.br = "no_reset"
    /\ reset_expected[ev.msg.agentid]

\* C8: when multi_agent_env.step raises in a normal round, every agent whose
\* message was collected in that round gets exactly one ErrorMessage and nobody
\* else gets anything, the collector is reset for the same agent ids (no slot
\* filled, not interrupted), the reset flags, the buffers and the environment
\* are unchanged, the loop keeps running, and an action sent again by any agent
\* of the round is collected.
SimulationFault ==
    [][(ev'.br = "step_raised") =>
            /\ outgoing' = [i \in Agents |->
                              IF i \in roundFrom \cup {ev'.msg.agentid}
                              THEN Append(outgoing[i], ErrorMessage("StepError"))
                              ELSE outgoing[i]]
            /\ collector'.keys = collector.keys
            /\ collector'.collected = 0
            /\ ~collector'.interrupted
            /\ \A i \in Agents : collector'.vals[i] = "None"
            /\ UNCHANGED <<reset_expected, reset_requested, obs_msg_buffer, env>>
            /\ srv' = "loop"
            /\ \A i \in roundFrom \cup {ev'.msg.agentid}, a \in Actions :
                    /\ ~reset_expected'[i]
                    /\ ACCollect(collector', ActionMessage(a, i)).err = ""]_vars

\* C9: when an interrupted round completes, every agent that is neither
\* reset_expected, nor reset_requested, nor the sender of the reset that
\* completes the round gets exactly one ObservationMessage with done = True and
\* info.interrupted = True carrying the observation the server holds for it;
\* the other agents get no message with info.interrupted.
InterruptionNotification ==
    [][(ev'.br = "round_interrupted") =>
          \A i \in Agents :
            IF \/ reset_expected[i]
               \/ reset_requested[i]
               \/ (ev'.msg.type = "reset" /\ ev'.msg.agentid = i)
            THEN /\ Len(outgoing'[i]) >= Len(outgoing[i])
                 /\ \A k \in (Len(outgoing[i]) + 1) .. Len(outgoing'[i]) :
                        /\ outgoing'[i][k].type = "obs"
                        /\ ~outgoing'[i][k].interrupted
                        /\ ~outgoing'[i][k].done
            ELSE outgoing'[i] =
                    Append(outgoing[i],
                           ObservationMessage(obs[i], 0, TRUE, info[i], TRUE))]_vars

\* C9 witness: an interrupted round completed and an agent that had not asked
\* for the reset has the notification in its outgoing queue
InterruptionNotificationSeen ==
    /\ ev.br = "round_interrupted"
    /\ \E i \in Agents :
          /\ outgoing[i] # <<>>
          /\ outgoing[i][Len(outgoing[i])].type = "obs"
          /\ outgoing[i][Len(outgoing[i])].interrupted
          /\ outgoing[i][Len(outgoing[i])].done
          /\ outgoing[i][Len(outgoing[i])].observation > 0

\* C10: after an interrupted round, the first call of an agent that had asked
\* for the reset or was notified of the interruption, if it is a reset(), is
\* never answered with an out-of-turn or already-collected error (the server
\* resets, sends or buffers, or collects it); and an action of an agent that is
\* in the collector's turn, has reset and has nothing collected yet is collected.
RestartAfterInterruption ==
    [][/\ (ev'.msg.type = "reset" /\ restart[ev'.msg.agentid] = "fresh") =>
            /\ ev'.br \in {"full_reset", "agent_reset", "collected", "round_interrupted"}
            /\ srv' = "loop"
       /\ (/\ ev'.msg.type = "action"
           /\ ~reset_expected[ev'.msg.agentid]
           /\ ev'.msg.agentid \in ACAgentTurn(collector)
           /\ ev'.msg.agentid \notin roundFrom) =>
            ev'.br \in {"collected", "step_ok", "step_raised", "round_interrupted"}]_vars

\* C2: multi_agent_env.step is called only when every agent the collector is
\* armed for has had a message collected in this round, with the collected
\* actions in arming order; a collected action that does not complete the round
\* makes no environment call and sends nothing.
NoPartialRound ==
    [][/\ (ev'.sim = "step") =>
            /\ ev'.msg.type = "action"
            /\ ACAgentTurn(collector) \subseteq (roundFrom \cup {ev'.msg.agentid})
            /\ Len(ev'.args) = Len(collector.keys)
            /\ \A k \in DOMAIN collector.keys :
                    ev'.args[k] = IF collector.keys[k] = ev'.msg.agentid
                                  THEN ev'.msg.action
                                  ELSE collector.vals[collector.keys[k]]
       /\ (ev'.msg.type = "action" /\ ev'.br = "collected") =>
            /\ ev'.sim = "none"
            /\ env' = env
            /\ outgoing' = outgoing]_vars

\* C4: no outgoing queue ever holds more than one message
OutboundAtMostOne == \A i \in Agents : Len(outgoing[i]) <= 1

\* C6: an ActionMessage of an agent that already had a message collected in this
\* round is answered with an ErrorMessage(ValueError) to that agent and leaves
\* the collector (the stored action and the collected count) unchanged.
NoDuplicateAction ==
    [][(/\ ev'.msg.type = "action"
        /\ ~reset_expected[ev'.msg.agentid]
        /\ ev'.msg.agentid \in roundFrom) =>
            /\ outgoing' = Put(outgoing, ev'.msg.agentid, ErrorMessage("ValueError"))
            /\ collector' = collector]_vars

\* C7: after an out-of-turn action, a duplicate action, an action without reset
\* or a message of no registered type, no agent but the sender gets a message
\* and the control loop is still in its loop.
ProtocolViolationsSurvive ==
    [][(\/ ev'.br \in {"turn", "dup", "no_reset"}
        \/ ev'.msg.type = "malformed") =>
            /\ srv' = "loop"
            /\ \A i \in Agents :
                    (ev'.msg.type = "malformed" \/ i # ev'.msg.agentid)
                        => outgoing'[i] = outgoing[i]]_vars

ResetRoundTrip ==
    [][trip'.open =>
          /\ \A i \in Agents :
                \A k \in (Len(outgoing[i]) + 1) .. Len(outgoing'[i]) :
                    outgoing'[i][k] = ObservationMessage(obs'[i], 0, FALSE, 0, FALSE)
          /\ (trip'.called = Agents) =>
                /\ trip'.resets = 1
                /\ \A i \in Agents :
                      IF i \in ACAgentTurn(collector')
                      THEN trip'.got[i] = 1
                      ELSE trip'.got[i] = 0 /\ reset_requested'[i]]_vars

\* C12: after a step that returned, every agent the environment reports done
\* and that was not reset_expected before gets exactly one message in that
\* round, carrying its own observation, reward, done = True and info, also when
\* it is in agent_turn next; reset_expected is set for every agent reported
\* done and stays as it was for the others.
TerminalRound ==
    [][(ev'.br = "step_ok") =>
          /\ \A i \in Agents :
                (ev'.done[i] /\ ~reset_expected[i]) =>
                    outgoing'[i] =
                        Append(outgoing[i],
                               ObservationMessage(obs'[i], RewOf(i), TRUE, info'[i], FALSE))
          /\ \A i \in Agents :
                reset_expected'[i] = (reset_expected[i] \/ ev'.done[i])]_vars

\* C12 witness: a step ended the episode for both agents, neither was
\* reset_expected before, one of them is in agent_turn next, and both have
\* the terminal observation of that round in their outgoing queues
TerminalRoundSeen ==
    /\ ev.br = "step_ok"
    /\ \A i \in Agents :
          /\ ev.done[i]
          /\ outgoing[i] = <<ObservationMessage(obs[i], RewOf(i), TRUE, InfoOf(i), FALSE)>>
          /\ pc[i] = "wait"
    /\ collector.keys # <<>>

\* C13: in the script of the client tests, where every agent's thread calls
\* reset() once and then step() until a step returns done, if the environment
\* never raises and comes to report every agent done, then no call raises,
\* every observation delivered is a real one, every call returns and every
\* thread ends having seen done.
EpisodeProgress ==
    (/\ [](ev.br # "step_raised")
     /\ <>(ev.br = "step_ok" /\ \A i \in Agents : ev.done[i]))
    => /\ [](\A i \in Agents : thread[i] # "failed")
       /\ [](\A i \in Agents : \A k \in DOMAIN outgoing[i] :
                 outgoing[i][k].type = "obs" => outgoing[i][k].observation # 0)
       /\ \A i \in Agents : (pc[i] = "wait") ~> (pc[i] # "wait")
       /\ <>(\A i \in Agents : thread[i] = "finished")

\* C14: however many threads call stop(), at most one StopServerMessage is ever
\* put into incoming_messages and at most one into each outgoing queue; a
\* message is put only by a thread that got the stop lock, and a call that
\* does not get the lock puts nothing.
StopOnce ==
    /\ [](/\ stopPuts.inc <= 1
          /\ \A i \in Agents : stopPuts.out[i] <= 1)
    /\ [][/\ (stopPuts'.inc # stopPuts.inc) => (~stop_lock /\ stop_lock')
          /\ \A t \in Threads :
                (AtStop(t) /\ stop_lock /\ pc'[t] # pc[t]) =>
                    /\ pc'[t] = "wait_check"
                    /\ UNCHANGED <<incoming, outgoing, stopPuts>>
          /\ \A t \in Threads :
                (pc[t] = "wait_check" /\ pc'[t] # pc[t]) =>
                    UNCHANGED <<incoming, outgoing, stopPuts>>]_vars

\* C14 witness: a thread is inside _stop() with its StopServerMessage put, and
\* another thread that called stop() meanwhile did not get the lock
StopOnceSeen ==
    /\ stopPuts.inc = 1
    /\ \E t, u \in Threads :
          /\ t # u
          /\ pc[t] \in {"fill_get", "fill_put"}
          /\ pc[u] \in {"wait_check", "wait_finished"}

OrderlyExit ==
    /\ [](/\ (srv = "exit") => (started /\ ~finished /\ stop_lock)
          /\ (srv = "exit_clear") => (started /\ finished /\ stop_lock)
          /\ (srv = "exit_release") => (~started /\ finished /\ stop_lock)
          /\ (srv = "done") => (~started /\ finished))
    /\ [][/\ (ev'.br = "stop") => (srv' = "exit" /\ coord' = coord /\ outgoing' = outgoing)
          /\ (srv \in {"exit", "exit_clear", "exit_release", "done"}) =>
                /\ ev'.msg = NoMsg
                /\ coord' = coord
                /\ srv' \in {"exit", "exit_clear", "exit_release", "done"}
          /\ (stop_lock /\ ~stop_lock') => (~IsRunning' /\ finished' /\ ~started')]_vars

\* C16 witness: the loop was left with a request still in incoming_messages, the
\* epilogue has run to its end and the lock is free again
OrderlyExitSeen ==
    /\ srv = "done"
    /\ ~stop_lock
    /\ incoming # <<>>
    /\ stopPuts.inc = 1

\* C17: after the control loop has taken an ErrorMessage from
\* incoming_messages, finished_event becomes set and the server is not running,
\* and a thread inside stop(wait=True) returns.
ReportedErrorEndsServer ==
    /\ (ev.msg.type = "error") ~> (finished /\ ~IsRunning)
    /\ \A t \in Stoppers :
          (pc[t] \in {"fill_get", "fill_put", "wait_check", "wait_finished"})
              ~> (pc[t] = "done")

\* C18: a reset() or step() made while started_event is clear or finished_event
\* is set raises StopServerException, puts nothing into incoming_messages and
\* does not block; and no call that passed the test is left blocked for ever:
\* when the control loop has ended and no thread is filling the outgoing
\* queues any more, no agent waits on an empty queue.
FailFastOrReleased ==
    /\ [][(budget' # budget /\ (~started \/ finished)) =>
              /\ incoming' = incoming
              /\ pc' = pc
              /\ \E i \in Agents : result'[i] = "not_running"]_vars
    /\ []((/\ srv \in {"exit", "exit_clear", "exit_release", "done"}
           /\ \A t \in Threads : pc[t] \notin {"fill_get", "fill_put"})
              => \A i \in Agents : ~(pc[i] = "wait" /\ outgoing[i] = <<>>))

\* C19: the error handler of a session decides how far an error reaches.  With
\* handle_error_stop the error is raised only after stop() has returned: the
\* server is not running then, and every session that was blocked when the
\* lock was taken has been released or finds a message on its queue once
\* _stop() is through.  With handle_error_nostop the error is raised at once
\* and nothing else changes: the control loop, the lifecycle events, the stop
\* lock, incoming_messages and the other sessions are as they were.
ErrorBlastRadius ==
    /\ [](\A i \in Agents :
              (result[i] = "error_stop" /\ pc[i] = "idle") => (finished /\ ~IsRunning))
    /\ []((\A t \in Threads : pc[t] \notin {"fill_get", "fill_put"})
              => \A j \in blockedAtStop : outgoing[j] # <<>>)
    /\ [][\A i \in Agents :
            (result[i] = "pending" /\ result'[i] = "error") =>
                /\ pc'[i] = "idle"
                /\ \A j \in Threads \ {i} : pc'[j] = pc[j]
                /\ \A j \in Agents \ {i} : outgoing'[j] = outgoing[j]
                /\ UNCHANGED <<srv, started, finished, stop_lock, incoming, coord,
                               stopPuts>>]_vars

\* C19 witness: an error was raised by handle_error_stop after the server had
\* stopped, and the other session, blocked meanwhile, was released by the
\* StopServerMessage
ErrorBlastRadiusSeen ==
    \E i, j \in Agents :
        /\ result[i] = "error_stop"
        /\ pc[i] = "idle"
        /\ result[j] = "stopped"
        /\ finished

\* C19 as stated: while the handle_error_stop of one session is inside stop(),
\* another session's blocked call returns only by StopServerException
ErrorStopShutdownPathOnly ==
    [][\A j \in Agents :
          (/\ pc[j] = "wait"
           /\ pc'[j] # "wait"
           /\ \E i \in Agents \ {j} :
                 /\ result[i] = "error_stop"
                 /\ pc[i] \in {"fill_get", "fill_put", "wait_check", "wait_finished"})
              => result'[j] = "stopped"]_vars

\* C20: when a close() of a session handle has returned, finished_event is set
\* and the control loop has left its loop, whether the handles are closed
\* together or one after another and whether or not stop() had been called
\* before; finished_event, once set, stays set.
HandlesClosed ==
    /\ [](\A t \in Closers :
              pc[t] = "done" =>
                  /\ finished
                  /\ srv \in {"exit_clear", "exit_release", "done"})
    /\ [][finished => finished']_vars

\* C20 witness: both handles are closed, the second close() took the lock the
\* control loop had released, and the server has ended
HandlesClosedSeen ==
    /\ \A t \in Closers : pc[t] = "done"
    /\ finished
    /\ srv = "done"
    /\ stop_lock
    /\ stopPuts.inc = 1

\* C21: once multi_agent_to_single_agent has been called on an environment with
\* N >= 2 agents, it returns: it does not raise, it hands back exactly N
\* handles, the i-th with agent id i and the environment's i-th observation
\* space, action space and reward range, all on one ClientServerInterface, and
\* started_event is set by then.
SpawnReturnsHandles ==
    spawn.pos \notin {"none", "call"} =>
        /\ spawn.pos = "returned"
        /\ spawn.raised = ""
        /\ Len(spawn.clients) = spawn.env.num_agents
        /\ \A k \in 1..Len(spawn.clients) :
              /\ spawn.clients[k].agentid = k - 1
              /\ spawn.clients[k].observation_space = spawn.env.observation_spaces[k]
              /\ spawn.clients[k].action_space = spawn.env.action_spaces[k]
              /\ spawn.clients[k].reward_range = spawn.env.reward_ranges[k]
              /\ spawn.clients[k].csi = spawn.clients[1].csi
        /\ started

\* C22: when the reset of agent p is handled while reset_expected is set for
\* every agent, the environment is reset in that step, reset_expected is cleared
\* for p and stays set for the others, the buffer of every agent in agent_turn
\* holds its first observation of the new episode, and p either is in
\* agent_turn and receives that observation, its buffer left empty and its
\* reset_requested flag clear, or is not and receives nothing, with its
\* reset_requested flag set.
FullReset ==
    [][\A p \in Agents :
          (/\ ev'.msg = ResetMessage(p)
           /\ \A i \in Agents : reset_expected[i]) =>
              /\ ev'.br = "full_reset"
              /\ ev'.sim = "reset"
              /\ reset_expected' = [i \in Agents |-> i # p]
              /\ \A j \in SeqToSet(env'.turn) \ {p} :
                    obs_msg_buffer'[j] = ObservationMessage(obs'[j], 0, FALSE, 0, FALSE)
              /\ IF p \in SeqToSet(env'.turn)
                   THEN /\ outgoing'[p] =
                              Append(outgoing[p],
                                     ObservationMessage(obs'[p], 0, FALSE, 0, FALSE))
                        /\ obs_msg_buffer'[p] = NoMsg
                        /\ ~reset_requested'[p]
                   ELSE /\ outgoing'[p] = outgoing[p]
                        /\ reset_requested'[p]]_vars

\* C23: when the reset of agent p is handled while reset_expected is set for p
\* but not for every agent, the environment is not called, and the flags, the
\* buffer and the outgoing queue of every other agent stay as they were;
\* reset_expected is cleared for p, and p either receives the observation that
\* was in its buffer, or has its reset_requested flag set and receives nothing;
\* an agent whose reset is recorded this way receives no observation before a
\* step that puts it in agent_turn.
AgentReset ==
    [][\A p \in Agents :
          /\ (/\ ev'.msg = ResetMessage(p)
              /\ reset_expected[p]
              /\ \E i \in Agents : ~reset_expected[i]) =>
                 /\ ev'.br = "agent_reset"
                 /\ ev'.sim = "none"
                 /\ env' = env
                 /\ \A j \in Agents \ {p} :
                       /\ reset_expected'[j] = reset_expected[j]
                       /\ reset_requested'[j] = reset_requested[j]
                       /\ obs_msg_buffer'[j] = obs_msg_buffer[j]
                       /\ outgoing'[j] = outgoing[j]
                 /\ ~reset_expected'[p]
                 /\ obs_msg_buffer'[p] = NoMsg
                 /\ IF obs_msg_buffer[p] # NoMsg
                      THEN /\ outgoing'[p] = Append(outgoing[p], obs_msg_buffer[p])
                           /\ reset_requested'[p] = reset_requested[p]
                      ELSE /\ outgoing'[p] = outgoing[p]
                           /\ reset_requested'[p]
          /\ (/\ reset_requested[p]
              /\ ~reset_expected[p]
              /\ Len(outgoing'[p]) > Len(outgoing[p])
              /\ outgoing'[p][Len(outgoing'[p])].type = "obs") =>
                 p \in SeqToSet(env'.turn)]_vars

\* C24: a ResetMessage from an agent p that is in agent_turn, has not been
\* collected this round and has reset_expected clear sets reset_requested[p]
\* and is collected like an action: its slot is filled, the count grows by one
\* and the round is marked interrupted. While others in agent_turn are missing
\* the environment is not called; a round marked interrupted ends only with the
\* message that completes agent_turn, by a reset of the environment, and in
\* that round step() is not called and no collected action reaches the
\* environment.
InterruptRequest ==
    [][/\ \A p \in Agents :
            (/\ ev'.msg = ResetMessage(p)
             /\ ~reset_expected[p]
             /\ p \in ACAgentTurn(collector)
             /\ p \notin roundFrom) =>
                IF roundFrom \cup {p} # ACAgentTurn(collector)
                THEN /\ ev'.br = "collected"
                     /\ ev'.sim = "none"
                     /\ env' = env
                     /\ reset_requested'[p]
                     /\ collector'.vals[p] = "ResetAction"
                     /\ collector'.collected = collector.collected + 1
                     /\ collector'.interrupted
                     /\ collector'.keys = collector.keys
                ELSE /\ ev'.br = "round_interrupted"
                     /\ ev'.sim = "reset"
                     /\ ev'.args = <<>>
                     /\ collector' = ACReset(env'.turn)
       /\ (collector.interrupted /\ ev'.msg # NoMsg) => ev'.sim # "step"
       /\ (ev'.br = "round_interrupted") =>
             /\ ev'.sim = "reset"
             /\ ev'.args = <<>>
             /\ roundFrom \cup {ev'.msg.agentid} = ACAgentTurn(collector)]_vars

\* C25: the step that ends an interrupted round resets the environment and
\* leaves reset_expected clear exactly for the agents whose reset_requested
\* flag is set; each of those that is in agent_turn is sent the first
\* observation of the new episode in that step and has its flag cleared, every
\* other agent in agent_turn has that observation buffered and is not sent it,
\* and a requester that is not in agent_turn keeps its flag and is sent nothing,
\* in that step and until a step that puts it in agent_turn.
InterruptRedemption ==
    [][/\ (ev'.br = "round_interrupted") =>
            LET req == {i \in Agents : reset_requested[i]}
                          \cup (IF ev'.msg.type = "reset" THEN {ev'.msg.agentid} ELSE {})
                turn == SeqToSet(env'.turn)
                first(i) == ObservationMessage(obs'[i], 0, FALSE, 0, FALSE)
            IN  /\ ev'.sim = "reset"
                /\ reset_expected' = [i \in Agents |-> i \notin req]
                /\ \A i \in turn \cap req :
                      /\ outgoing'[i] = Append(outgoing[i], first(i))
                      /\ ~reset_requested'[i]
                /\ \A i \in turn \ req :
                      /\ obs_msg_buffer'[i] = first(i)
                      /\ \A k \in (Len(outgoing[i]) + 1)..Len(outgoing'[i]) :
                            outgoing'[i][k].interrupted
                /\ \A i \in req \ turn :
                      /\ reset_requested'[i]
                      /\ outgoing'[i] = outgoing[i]
       /\ \A p \in Agents :
            (/\ restart[p] = "due"
             /\ pc[p] = "wait"
             /\ reset_requested[p]
             /\ ~reset_expected[p]
             /\ Len(outgoing'[p]) > Len(outgoing[p])
             /\ outgoing'[p][Len(outgoing'[p])].type = "obs") =>
                p \in SeqToSet(env'.turn)]_vars

\* C26: after a step that returned, every agent in agent_turn that is not newly
\* done meets exactly one of three outcomes: with reset_requested set, the flag
\* is cleared and the observation is sent; otherwise, with reset_expected set,
\* the observation is stored in its buffer and nothing is sent; otherwise the
\* observation is sent. An agent that is neither in agent_turn nor newly done
\* is sent nothing in that step.
DeliverOrBuffer ==
    [][(ev'.br = "step_ok") =>
          LET newly_done == {i \in Agents : ~reset_expected[i] /\ ev'.done[i]}
              turn == SeqToSet(env'.turn) \ newly_done
              msg(i) == ObservationMessage(obs'[i], RewOf(i), ev'.done[i], info'[i], FALSE)
          IN  /\ \A i \in turn :
                    IF reset_requested[i]
                    THEN /\ ~reset_requested'[i]
                         /\ outgoing'[i] = Append(outgoing[i], msg(i))
                         /\ obs_msg_buffer'[i] = obs_msg_buffer[i]
                    ELSE IF reset_expected'[i]
                    THEN /\ obs_msg_buffer'[i] = msg(i)
                         /\ outgoing'[i] = outgoing[i]
                    ELSE /\ outgoing'[i] = Append(outgoing[i], msg(i))
                         /\ obs_msg_buffer'[i] = obs_msg_buffer[i]
              /\ \A i \in Agents \ (turn \cup newly_done) :
                    outgoing'[i] = outgoing[i]]_vars

\* C26 witness: a step has returned with both agents in agent_turn and neither
\* done; one, which has not reset yet, has the step's observation in its buffer
\* and nothing in its queue, the other has the step's observation in its queue
DeliverOrBufferSeen ==
    /\ ev.br = "step_ok"
    /\ SeqToSet(env.turn) = Agents
    /\ \A i \in Agents : ~ev.done[i]
    /\ \E i \in Agents : \E j \in Agents \ {i} :
          /\ reset_expected[i]
          /\ obs_msg_buffer[i] = ObservationMessage(obs[i], RewOf(i), FALSE, info[i], FALSE)
          /\ outgoing[i] = <<>>
          /\ ~reset_expected[j]
          /\ outgoing[j] = <<ObservationMessage(obs[j], RewOf(j), FALSE, info[j], FALSE)>>

BuffersCleared ==
    [][(ev'.sim = "reset") =>
          \A i \in Agents :
              LET first == ObservationMessage(obs'[i], 0, FALSE, 0, FALSE)
                  n == Len(outgoing'[i])
              IN  /\ obs_msg_buffer'[i] \in {NoMsg, first}
                  /\ (/\ n > Len(outgoing[i])
                      /\ outgoing'[i][n].type = "obs"
                      /\ ~outgoing'[i][n].interrupted) => outgoing'[i][n] = first]_vars

\* C29: whenever the control loop is between two messages, waiting on
\* incoming_messages, no agent has both reset_expected and reset_requested set.
FlagsExclusive ==
    (srv = "loop") => \A i \in Agents : ~(reset_expected[i] /\ reset_requested[i])

\* C30: the collector's count is never negative, never exceeds the number of
\* agents it is armed for, and equals the number of armed agents whose slot
\* holds a collected entry.
LedgerCount ==
    /\ collector.collected >= 0
    /\ collector.collected <= Len(collector.keys)
    /\ collector.collected =
          Cardinality({i \in ACAgentTurn(collector) : collector.vals[i] # "None"})

\* C31: when _handle_action hands collect() a message of an agent that is not in
\* agent_turn (an action, or a reset of an agent that has reset while another
\* has not given one up), collect() fails as out of turn, the collector's slots,
\* its count and its interrupted flag are as before, and the one message put
\* into any queue is the error put into that agent's queue.
OutOfTurnCollect ==
    [][(srv = "loop" /\ incoming # <<>> /\ ev'.br # "") =>
          LET msg == Head(incoming) IN
          (/\ msg.type \in {"action", "reset"}
           /\ ~reset_expected[msg.agentid]
           /\ msg.agentid \notin ACAgentTurn(collector)) =>
              /\ ev'.br = "turn"
              /\ collector' = collector
              /\ outgoing' = [outgoing EXCEPT
                                ![msg.agentid] = Append(@, ErrorMessage("ValueError"))]]_vars

\* C31 witness: an interruption request of agent 1 was answered as out of turn
\* while the collector waited for agent 0 alone; the collector is still empty
\* and not interrupted, and agent 0 was sent nothing
OutOfTurnCollectSeen ==
    /\ ev.br = "turn"
    /\ ev.msg = ResetMessage(1)
    /\ collector.keys = <<0>>
    /\ collector.collected = 0
    /\ ~collector.interrupted
    /\ outgoing[0] = <<>>
    /\ outgoing[1] # <<>>
    /\ outgoing[1][Len(outgoing[1])] = ErrorMessage("ValueError")

\* C32: all_collected is true exactly when every id the collector is armed for
\* has had a message collected since the last reset(ids); get_actions() raises
\* whenever all_collected is false, and otherwise returns one entry per armed
\* id, in the order of ids.
LedgerCompletion ==
    /\ ACAllCollected(collector) <=> (roundFrom = ACAgentTurn(collector))
    /\ (ev.br = "runtime_error") => ~ACAllCollected(collector)
    /\ (ev.br = "actions") =>
          /\ ACAllCollected(collector)
          /\ Len(ev.args) = Len(collector.keys)
          /\ \A k \in DOMAIN collector.keys :
                /\ collector.keys[k] \in roundFrom
                /\ ev.args[k] = collector.vals[collector.keys[k]]

\* C33: within a round the collector's interrupted flag, once set by a collected
\* ResetMessage, stays set through every later collect(), the failing ones
\* included, and nothing but a collected ResetMessage sets it; every re-arming
\* of the collector leaves it clear, so a transition takes the interrupted
\* branch only if a ResetMessage was collected since the collector was last
\* re-armed, and the step branch only if none was.
StickyInterruption ==
    [][/\ (ev'.br \in {"collected", "turn", "dup"}) =>
            (collector'.interrupted <=>
                (collector.interrupted
                    \/ (ev'.br = "collected" /\ ev'.msg.type = "reset")))
       /\ (ev'.br \in {"armed", "full_reset", "round_interrupted", "step_ok", "step_raised"}) =>
            ~collector'.interrupted
       /\ (ev'.br = "round_interrupted") =>
            (collector.interrupted \/ ev'.msg.type = "reset")
       /\ (ev'.br \in {"step_ok", "step_raised"}) =>
            (~collector.interrupted /\ ev'.msg.type = "action")]_vars

\* C33 witness: the round before was interrupted and re-armed the collector for
\* both agents; in this round agent 0's ResetMessage was collected and its
\* ActionMessage was then refused as a duplicate, and the flag is still set
StickyInterruptionSeen ==
    /\ ev.br = "dup"
    /\ ev.msg = ActionMessage("a", 0)
    /\ collector.interrupted
    /\ collector.vals[0] = "ResetAction"
    /\ collector.collected = 1
    /\ Len(collector.keys) = 2
    /\ \E i \in Agents : restart[i] # ""

\* C34: when the _stop() of the thread that took the stop lock gets to an
\* agent's outgoing queue, every message queued there is removed, so that none
\* of them is delivered, and a StopServerMessage is put after that; a reset()
\* or step() that starts after a stop() has returned puts no request and waits
\* for no answer, so it returns no observation.
StopReplacesQueued ==
    [][/\ \A t \in Threads :
            /\ (pc[t] = "fill_get" /\ pc'[t] = "fill_put") =>
                    outgoing'[qi[t]] = <<>>
            /\ (pc[t] = "fill_put" /\ pc'[t] # "fill_put") =>
                    outgoing'[qi[t]] = Append(outgoing[qi[t]], StopServerMessage)
       /\ \A i \in Agents :
            ((\E t \in Stoppers : pc[t] = "done") /\ pc[i] = "idle") =>
                /\ pc'[i] = "idle"
                /\ result'[i] \in {result[i], "not_running"}
                /\ (budget' < budget) => (incoming' = incoming)]_vars

\* C35 as stated: when started_event is set the incoming queue and every
\* outgoing queue are empty, and a message put on a channel before
\* started_event was set is never handled by the control loop nor returned by
\* the get() of an agent's reset() or step().
StartsEmptyAlways ==
    [][/\ (~started /\ started') =>
            (incoming' = <<>> /\ \A i \in Agents : outgoing'[i] = <<>>)
       /\ ~IsEarly(ev'.msg)
       /\ \A i \in Agents :
            (pc[i] = "wait" /\ pc'[i] # "wait") => ~IsEarly(Head(outgoing[i]))]_vars

\* C35 as amended: when started_event is set neither the incoming queue nor an
\* outgoing queue holds a message that was put there before run() began to
\* drain the channels, and such a message is never handled by the control loop
\* nor returned by the get() of an agent's reset() or step().
StartsEmpty ==
    [][/\ (~started /\ started') =>
            /\ \A k \in DOMAIN incoming' : ~IsStale(incoming'[k])
            /\ \A i \in Agents : \A k \in DOMAIN outgoing'[i] : ~IsStale(outgoing'[i][k])
       /\ ~IsStale(ev'.msg)
       /\ \A i \in Agents :
            (pc[i] = "wait" /\ pc'[i] # "wait") => ~IsStale(Head(outgoing[i]))]_vars

\* C35 witness: every message the holder of the interface had to put was put
\* before the channels were drained; started_event is set, the channels are
\* empty, and no message has been handled and no call made yet
StartsEmptySeen ==
    /\ rawLeft = 0
    /\ started
    /\ srv = "loop"
    /\ budget = StartCalls
    /\ incoming = <<>>
    /\ \A i \in Agents : outgoing[i] = <<>>
    /\ \A i \in Agents : reset_expected[i]
    /\ env.clock = 0

\* C36: is_running() is false before start(), true while the control loop runs
\* after start(wait=True) has returned, and false whenever finished_event is
\* set; finished_event, once set, stays set; started_event is set only while
\* finished_event is clear and cleared only once finished_event is set, so for
\* a server started once it is not set a second time.
LifecycleForward ==
    /\ [](srv = "new" => ~IsRunning)
    /\ [](srv = "loop" => IsRunning)
    /\ [](finished => ~IsRunning)
    /\ [][finished => finished']_vars
    /\ [][(~started /\ started') => (~finished' /\ srv' = "loop")]_vars
    /\ [][(started /\ ~started') => finished']_vars

\* C36 witness: the server ran, a thread's stop(wait=True) has returned, the
\* control loop has ended with finished_event set and started_event cleared
LifecycleForwardSeen ==
    /\ srv = "done"
    /\ finished
    /\ ~started
    /\ ~IsRunning
    /\ \E t \in Stoppers : pc[t] = "done"

\* C37: while every agent's thread calls reset() first and step() after that
\* until a step returns done, the control loop answers no message with the
\* acted-without-reset, the out-of-turn or the duplicate-action error, whatever
\* agent_turn and done flags the environment returns.
NoProtocolErrors ==
    [][ev'.br \notin {"no_reset", "turn", "dup"}]_vars

\* C38: a step of the control loop that answers an ActionMessage or a
\* ResetMessage with the acted-without-reset, the out-of-turn or the duplicate
\* error leaves the collector, _reset_expected, _reset_requested, the
\* observation buffers, the last observations and the environment as they
\* were, and puts that one ErrorMessage on the sender's queue and nothing else.
RejectedChangesNothing ==
    [][(ev'.br \in {"no_reset", "turn", "dup"}) =>
          /\ collector' = collector
          /\ reset_expected' = reset_expected
          /\ reset_requested' = reset_requested
          /\ obs_msg_buffer' = obs_msg_buffer
          /\ obs' = obs /\ info' = info
          /\ env' = env
          /\ ev'.sim = "none"
          /\ \A i \in Agents \ {ev'.msg.agentid} : outgoing'[i] = outgoing[i]
          /\ Len(outgoing'[ev'.msg.agentid]) = Len(outgoing[ev'.msg.agentid]) + 1]_vars

\* C39: a stop() called before started_event is set puts no message on any
\* channel; a stop() called on the running server before any
\* StopServerMessage was put puts one on incoming_messages; and the stop lock
\* is held only while a StopServerMessage has been put for the control loop
\* to end on.
StopNotPoisoned ==
    /\ [][\A t \in Closers :
            (pc[t] = "idle" /\ ~started /\ pc'[t] # "idle") =>
                (incoming' = incoming /\ outgoing' = outgoing)]_vars
    /\ [][\A t \in Closers :
            (pc[t] = "idle" /\ pc'[t] # "idle" /\ srv = "loop" /\ stopPuts.inc = 0) =>
                stopPuts'.inc = 1]_vars
    /\ [](stop_lock => stopPuts.inc > 0)

\* C40: with ignore_multiple_reset, a reset() that follows a reset() with no
\* step() in between sends nothing and returns what the first of them returned,
\* which is an observation and never None, also when the first reset() or a
\* step() ended in an error; a reset() after a step() sends a new ResetMessage
IgnoredResetRepeatsFirst ==
    [][ev'.br = "reset_ignored" =>
            LET i == ev'.msg.agentid IN
            /\ incoming' = incoming
            /\ ~session[i].stepped
            /\ ev'.args[1] # 0
            /\ ev'.args[1] = session[i].first]_vars

====
